---- MODULE Spec2Model ----
(***************************************************************************)
(* Streaming reconciliation of the research-agent chat client.             *)
(*                                                                         *)
(*   Spec        the useChat hook (src/src/hooks/useChat.ts, second        *)
(*               definition): chatState, its setChatState updaters,        *)
(*               processStreamingChunk, the 100 ms flush timer.            *)
(*   SpecSimple  SimpleStreamingClient (src/src/utils/api.ts).             *)
(*   SpecRobust  RobustStreamingClient (src/src/utils/api.ts).             *)
(*   SpecResponse processStreamingResponse (src/src/utils/api.ts) reading  *)
(*               one stream in chunks.                                     *)
(*                                                                         *)
(* Text is a sequence of tokens.  A token is an icon, a marker label, a    *)
(* word or the newline; String.includes and the regular expressions of the *)
(* source are evaluated on the tokens.                                     *)
(***************************************************************************)
EXTENDS Integers, Sequences, FiniteSets, TLC

(* ------------------------------ bounds -------------------------------- *)
MaxChunks == 3       \* chunks fed to processStreamingChunk
MaxToolUpdates == 2  \* calls of the exported updateToolCall
MaxSessions == 1     \* handleUserMessage calls
MaxLines == 4        \* lines of a stream read by a streaming client
MaxReads == 3        \* reads in which processStreamingResponse receives a stream
MaxTurns == 2        \* handleUserMessage calls when a conversation has several turns

(* ------------------------------ tokens -------------------------------- *)
WRENCH == "WRENCH"                    \* the tool-start icon
CHECK == "CHECK"                      \* the tool-result icon
CROSS == "CROSS"                      \* the tool-error icon
CLIPBOARD == "CLIPBOARD"              \* the research-iteration icon
ExecutingToolBold == "**Executing Tool:**"
ExecutingToolPlain == "Executing Tool:"
ResultBold == "**Result:**"
ResultPlain == "Result:"
ErrorBold == "**Error:**"
ErrorPlain == "Error:"
ResearchIteration == "**Research Iteration"
ResearchComplete == "SPARKLES **Research complete**"
ContinuingResearch == "CYCLE **Continuing research**"
NL == "NL"

Words == {"web_search", "done", "boom", "Hello", "world", "completed"}

Has(text, tok) == \E i \in 1..Len(text) : text[i] = tok

HasAny(text, toks) == \E i \in 1..Len(text) : text[i] \in toks

RECURSIVE Join(_)
Join(chunks) == IF chunks = <<>> THEN <<>> ELSE Head(chunks) \o Join(Tail(chunks))

(* The word that follows position i, "" when the next token is no word.   *)
WordAfter(text, i) == IF i < Len(text) /\ text[i + 1] \in Words THEN text[i + 1] ELSE ""

(* --------------------------- chunks of a stream ------------------------ *)
HelloChunk == <<"Hello">>
WorldChunk == <<"world">>
ToolStartChunk == <<WRENCH, ExecutingToolBold, "web_search", NL>>
ResultChunk == <<CHECK, ResultBold, "done", NL>>
ErrorChunk == <<CROSS, ErrorBold, "boom", NL>>
ResearchCompleteChunk == <<ResearchComplete>>
ContinuingChunk == <<ContinuingResearch>>

Chunks == {HelloChunk, WorldChunk, ToolStartChunk, ResultChunk, ErrorChunk,
           ResearchCompleteChunk, ContinuingChunk}

(* ------------------------------ state --------------------------------- *)
VARIABLES
    chatState,       \* useChat: the ChatState held by useState
    nextId,          \* useChat: source of generateId
    pendingUpdates,  \* useChat: setChatState updaters queued from inside an updater
    flushTimers,     \* useChat: pending setTimeout(() => flushBufferedContent(), 100)
    session,         \* useChat: the current handleUserMessage call, its stream and agent message
    toolUpdates,     \* useChat: number of external updateToolCall calls so far
    lastOp,          \* useChat: the operation that made the last step and its input
    simple,          \* SimpleStreamingClient: processStream locals and callback log
    robust,          \* RobustStreamingClient: processRobustStream locals, timer, callback log
    response,        \* processStreamingResponse: the stream, its locals and the onChunk calls
    simpleChat,      \* useSimpleChat: its useState values, its client ref, the closure of sendMessage
    openAIChat,      \* useOpenAIChat: its state and the position of its handleUserMessage call
    decoding         \* the byte stream of a response and the TextDecoder of the function reading it

vars == <<chatState, nextId, pendingUpdates, flushTimers, session, toolUpdates, lastOp,
          simple, robust, response, simpleChat, openAIChat, decoding>>

chatVars == <<chatState, nextId, pendingUpdates, flushTimers, session, toolUpdates, lastOp>>

otherVars == <<simple, robust, response, simpleChat, openAIChat, decoding>>

(* ------------------------------ ToolCall ------------------------------ *)
NoToolCall == [id |-> 0, toolName |-> "", status |-> "none", result |-> "", error |-> "",
               endTime |-> FALSE]

NewToolCall(id, name) == [id |-> id, toolName |-> name, status |-> "executing", result |-> "",
                          error |-> "", endTime |-> FALSE]

SomeExecuting(toolCalls) == \E i \in 1..Len(toolCalls) : toolCalls[i].status = "executing"

IndexOfId(toolCalls, id) ==
    IF \E i \in 1..Len(toolCalls) : toolCalls[i].id = id
    THEN CHOOSE i \in 1..Len(toolCalls) :
             toolCalls[i].id = id /\ \A j \in 1..(i - 1) : toolCalls[j].id # id
    ELSE 0

(* ------------------------- useChat: chatState ------------------------- *)
EmptyBuffer == [chunks |-> <<>>, isBuffering |-> FALSE, hasActiveToolCalls |-> FALSE]

InitialChatState ==
    [messages |-> <<>>, isLoading |-> FALSE, currentToolCall |-> NoToolCall,
     activeToolCalls |-> <<>>, errors |-> <<>>, streamingMessageId |-> 0,
     bufferedContent |-> EmptyBuffer]

NewMessage(id, sender) ==
    [id |-> id, sender |-> sender, content |-> <<>>, toolCalls |-> <<>>,
     isStreaming |-> sender = "agent", streamingComplete |-> FALSE, isBlocked |-> FALSE]

LastIsAgent(prev) ==
    Len(prev.messages) > 0 /\ prev.messages[Len(prev.messages)].sender = "agent"

LastContent(st) == IF LastIsAgent(st) THEN st.messages[Len(st.messages)].content ELSE <<>>

(* appendToLastMessage's updater *)
appendToLastMessage(prev, content) ==
    IF prev.bufferedContent.isBuffering /\ prev.bufferedContent.hasActiveToolCalls
    THEN prev
    ELSE IF LastIsAgent(prev)
         THEN [prev EXCEPT !.messages[Len(prev.messages)] =
                  [@ EXCEPT !.content = @ \o content,
                            !.isBlocked = prev.bufferedContent.hasActiveToolCalls]]
         ELSE prev

(* flushBufferedContent's updater *)
flushBufferedContent(prev) ==
    IF Len(prev.bufferedContent.chunks) = 0
    THEN [prev EXCEPT !.bufferedContent = EmptyBuffer]
    ELSE IF LastIsAgent(prev)
         THEN [prev EXCEPT !.messages[Len(prev.messages)] =
                               [@ EXCEPT !.content = @ \o Join(prev.bufferedContent.chunks),
                                         !.isBlocked = FALSE],
                           !.bufferedContent = EmptyBuffer]
         ELSE [prev EXCEPT !.bufferedContent = EmptyBuffer]

(* markStreamingComplete's updater *)
completeToolCalls(toolCalls) ==
    [i \in 1..Len(toolCalls) |->
        IF toolCalls[i].status = "executing"
        THEN [toolCalls[i] EXCEPT !.status = "completed", !.endTime = TRUE,
                                  !.result = IF @ # "" THEN @ ELSE "Execution completed"]
        ELSE toolCalls[i]]

markStreamingComplete(prev, messageId) ==
    LET targetMessageId == IF messageId # 0 THEN messageId ELSE prev.streamingMessageId
        completedToolCalls == completeToolCalls(prev.activeToolCalls)
    IN [prev EXCEPT
          !.streamingMessageId = 0,
          !.messages = [i \in 1..Len(prev.messages) |->
                          IF prev.messages[i].id = targetMessageId
                          THEN [prev.messages[i] EXCEPT !.isStreaming = FALSE,
                                                        !.streamingComplete = TRUE,
                                                        !.toolCalls = completedToolCalls,
                                                        !.isBlocked = FALSE]
                          ELSE prev.messages[i]],
          !.activeToolCalls = <<>>,
          !.currentToolCall = NoToolCall,
          !.bufferedContent = EmptyBuffer]

(* updateToolCall's updater *)
upsertToolCall(toolCalls, toolCall) ==
    LET existingIndex == IndexOfId(toolCalls, toolCall.id)
    IN IF existingIndex > 0 THEN [toolCalls EXCEPT ![existingIndex] = toolCall]
       ELSE Append(toolCalls, toolCall)

updateToolCall(prev, toolCall) ==
    LET activeToolCalls == upsertToolCall(prev.activeToolCalls, toolCall)
        hasActiveToolCalls == SomeExecuting(activeToolCalls)
    IN [prev EXCEPT
          !.activeToolCalls = activeToolCalls,
          !.messages = [i \in 1..Len(prev.messages) |->
                          IF prev.messages[i].id = prev.streamingMessageId
                          THEN [prev.messages[i] EXCEPT
                                  !.toolCalls = SelectSeq(activeToolCalls,
                                                          LAMBDA tc : tc.status # "pending"),
                                  !.isBlocked = hasActiveToolCalls]
                          ELSE prev.messages[i]],
          !.currentToolCall = IF toolCall.status = "executing" THEN toolCall ELSE NoToolCall,
          !.bufferedContent.hasActiveToolCalls = hasActiveToolCalls]

(* addError's updater *)
addError(prev, type, message) ==
    [prev EXCEPT !.errors = Append(@, [type |-> type, message |-> message])]

(* ------------------ useChat: processStreamingChunk -------------------- *)
(* chunk.includes and the two regular expressions of hasToolIndicators    *)
IndicatorTokens == {WRENCH, ExecutingToolBold, ExecutingToolPlain, ResultBold, ErrorBold,
                    CHECK, CROSS, CLIPBOARD}

hasToolIndicators(chunk) == HasAny(chunk, IndicatorTokens)

isToolStartChunk(chunk) ==
    Has(chunk, WRENCH) /\ HasAny(chunk, {ExecutingToolBold, ExecutingToolPlain})

isToolResultChunk(chunk) == Has(chunk, CHECK) /\ HasAny(chunk, {ResultBold, ResultPlain})

isToolErrorChunk(chunk) == Has(chunk, CROSS) /\ HasAny(chunk, {ErrorBold, ErrorPlain})

isResearchMarkerChunk(chunk) ==
    \/ \E i \in 1..(Len(chunk) - 1) : chunk[i] = CLIPBOARD /\ chunk[i + 1] = ResearchIteration
    \/ Has(chunk, ResearchComplete)
    \/ Has(chunk, ContinuingResearch)

(* chunk.match(...): the position of the icon of a well-formed marker, 0 when no match *)
MarkerMatch(chunk, icon, label) ==
    IF \E i \in 1..(Len(chunk) - 1) : chunk[i] = icon /\ chunk[i + 1] = label
    THEN CHOOSE i \in 1..(Len(chunk) - 1) :
             /\ chunk[i] = icon /\ chunk[i + 1] = label
             /\ \A j \in 1..(i - 1) : ~(chunk[j] = icon /\ chunk[j + 1] = label)
    ELSE 0

toolMatch(chunk) ==
    LET i == MarkerMatch(chunk, WRENCH, ExecutingToolBold)
    IN IF i > 0 /\ WordAfter(chunk, i + 1) # "" THEN i ELSE 0

(* the updater of the tool-indicator branch (retroactive buffering) *)
bufferIndicatorChunk(prev, chunk) ==
    IF LastIsAgent(prev) /\ LastContent(prev) # <<>>
    THEN [prev EXCEPT
            !.messages[Len(prev.messages)] = [@ EXCEPT !.content = <<>>, !.isBlocked = TRUE],
            !.bufferedContent = [chunks |-> <<LastContent(prev), chunk>>,
                                 isBuffering |-> TRUE, hasActiveToolCalls |-> TRUE]]
    ELSE [prev EXCEPT
            !.bufferedContent = [chunks |-> Append(prev.bufferedContent.chunks, chunk),
                                 isBuffering |-> TRUE, hasActiveToolCalls |-> TRUE]]

(* "Add to buffer" of the result, error and research-marker branches *)
appendChunkToBuffer(prev, chunk) ==
    [prev EXCEPT !.bufferedContent.chunks = Append(@, chunk)]

(* The updater of the result / error branch returns prev; from inside it  *)
(* calls updateToolCall and may arm the flush timer.                       *)
lastToolCallOf(prev) ==
    IF Len(prev.activeToolCalls) > 0 THEN prev.activeToolCalls[Len(prev.activeToolCalls)]
    ELSE NoToolCall

resolveLastToolCall(prev, status, text) ==
    LET lastToolCall == lastToolCallOf(prev)
        updatedToolCall == IF status = "completed"
                           THEN [lastToolCall EXCEPT !.status = "completed", !.result = text,
                                                     !.endTime = TRUE]
                           ELSE [lastToolCall EXCEPT !.status = "failed", !.error = text,
                                                     !.endTime = TRUE]
        remainingActiveToolCalls ==
            SelectSeq(prev.activeToolCalls,
                      LAMBDA tc : tc.id # lastToolCall.id /\ tc.status = "executing")
    IN IF lastToolCall.status = "executing"
       THEN [nested |-> <<[kind |-> "updateToolCall", toolCall |-> updatedToolCall,
                           content |-> <<>>]>>,
             timers |-> IF Len(remainingActiveToolCalls) = 0 THEN 1 ELSE 0]
       ELSE [nested |-> <<>>, timers |-> 0]

(* the updater of the regular-content branch; appendToLastMessage is      *)
(* called from inside it                                                   *)
regularContent(prev, chunk) ==
    LET hasActiveToolCalls == SomeExecuting(prev.activeToolCalls)
        appendOf(text) == <<[kind |-> "appendToLastMessage", toolCall |-> NoToolCall,
                             content |-> text]>>
    IN IF hasActiveToolCalls \/ prev.bufferedContent.isBuffering
       THEN [state |-> [prev EXCEPT
                          !.bufferedContent = [chunks |-> Append(prev.bufferedContent.chunks, chunk),
                                               isBuffering |-> TRUE,
                                               hasActiveToolCalls |-> hasActiveToolCalls]],
             nested |-> <<>>]
       ELSE IF Len(prev.bufferedContent.chunks) > 0
            THEN [state |-> [prev EXCEPT !.bufferedContent = EmptyBuffer],
                  nested |-> appendOf(Join(prev.bufferedContent.chunks) \o chunk)]
            ELSE [state |-> prev, nested |-> appendOf(chunk)]

(* processStreamingChunk: the state after its setChatState calls, the     *)
(* updaters queued from inside them, the timers armed, the ids consumed    *)
processStreamingChunk(prev, chunk, id) ==
    IF hasToolIndicators(chunk)
    THEN [branch |-> "indicator", state |-> bufferIndicatorChunk(prev, chunk),
          nested |-> <<>>, timers |-> 0, ids |-> 0]
    ELSE IF isToolStartChunk(chunk)
    THEN IF toolMatch(chunk) > 0
         THEN [branch |-> "toolStart",
               state |-> updateToolCall(prev,
                            NewToolCall(id, WordAfter(chunk, toolMatch(chunk) + 1))),
               nested |-> <<>>, timers |-> 0, ids |-> 1]
         ELSE [branch |-> "toolStart", state |-> prev, nested |-> <<>>, timers |-> 0, ids |-> 0]
    ELSE IF isToolResultChunk(chunk)
    THEN LET i == MarkerMatch(chunk, CHECK, ResultBold)
             r == resolveLastToolCall(prev, "completed", WordAfter(chunk, i + 1))
         IN [branch |-> "toolResult", state |-> appendChunkToBuffer(prev, chunk),
             nested |-> IF i > 0 THEN r.nested ELSE <<>>,
             timers |-> IF i > 0 THEN r.timers ELSE 0, ids |-> 0]
    ELSE IF isToolErrorChunk(chunk)
    THEN LET i == MarkerMatch(chunk, CROSS, ErrorBold)
             r == resolveLastToolCall(prev, "failed", WordAfter(chunk, i + 1))
         IN [branch |-> "toolError",
             state |-> appendChunkToBuffer(
                          IF i > 0 THEN addError(prev, "tool_error", WordAfter(chunk, i + 1))
                          ELSE prev, chunk),
             nested |-> IF i > 0 THEN r.nested ELSE <<>>,
             timers |-> IF i > 0 THEN r.timers ELSE 0, ids |-> 0]
    ELSE IF isResearchMarkerChunk(chunk)
    THEN [branch |-> "researchMarker", state |-> appendChunkToBuffer(prev, chunk),
          nested |-> <<>>, timers |-> IF Has(chunk, ResearchComplete) THEN 1 ELSE 0, ids |-> 0]
    ELSE [branch |-> "content", state |-> regularContent(prev, chunk).state,
          nested |-> regularContent(prev, chunk).nested, timers |-> 0, ids |-> 0]

(* --------------------------- useChat: actions -------------------------- *)
(* One entry of calls per handleUserMessage call: the position of the     *)
(* async function, the aborted flag of its AbortController and the id of   *)
(* its agent message.  ref is abortControllerRef.current, 0 for null.      *)
NoSession == [n |-> 0, chunks |-> 0, ref |-> 0, calls |-> <<>>]

NewCall(id) == [phase |-> "fetching", aborted |-> FALSE, agentMessageId |-> id]

NoOp == [op |-> "init", chunk |-> <<>>, branch |-> "", toolCall |-> NoToolCall, steps |-> <<>>]

ExternalToolCallIds == {91, 92}

ExternalToolCalls ==
    { [id |-> i, toolName |-> "web_search", status |-> s,
       result |-> IF s = "completed" THEN "done" ELSE "",
       error |-> IF s = "failed" THEN "boom" ELSE "",
       endTime |-> s \in {"completed", "failed"}] :
      i \in ExternalToolCallIds, s \in {"executing", "completed", "failed"} }

(* the texts handleUserMessage appends in its catch block *)
CancelNotice == <<NL, NL, "STOP Request cancelled by user">>

ErrorNotice == <<NL, NL, CROSS, ErrorPlain, "API request failed">>

ChatInit ==
    /\ chatState = InitialChatState
    /\ nextId = 1
    /\ pendingUpdates = <<>>
    /\ flushTimers = 0
    /\ session = NoSession
    /\ toolUpdates = 0
    /\ lastOp = NoOp

(* abortControllerRef.current.abort(), when the ref is set *)
leaveRef(s) == s

abortRef(s) == IF s.ref # 0 THEN [s EXCEPT !.calls[s.ref].aborted = TRUE] ELSE s

(* the setChatState and addMessage calls of handleUserMessage before its   *)
(* try block; id and id + 1 are the ids of the two new messages            *)
startStreaming(prev, id) ==
    [prev EXCEPT !.isLoading = TRUE,
                 !.activeToolCalls = <<>>,
                 !.bufferedContent = EmptyBuffer,
                 !.messages = @ \o <<NewMessage(id, "user"), NewMessage(id + 1, "agent")>>,
                 !.streamingMessageId = id + 1]

(* handleUserMessage up to the await of apiClient.sendMessageStream *)
handleUserMessage(limit) ==
    /\ session.n < limit
    /\ ~chatState.isLoading
    /\ chatState' = startStreaming(chatState, nextId)
    /\ nextId' = nextId + 2
    /\ session' = [abortRef(session) EXCEPT !.n = @ + 1,
                                            !.ref = Len(session.calls) + 1,
                                            !.calls = Append(@, NewCall(nextId + 1))]
    /\ lastOp' = [NoOp EXCEPT !.op = "handleUserMessage"]
    /\ UNCHANGED <<pendingUpdates, flushTimers, toolUpdates, otherVars>>

HandleUserMessage == handleUserMessage(MaxSessions)

(* the two calls that end every path of handleUserMessage, and its        *)
(* finally block                                                           *)
finishStreaming(prev, messageId) ==
    [markStreamingComplete(flushBufferedContent(prev), messageId) EXCEPT !.isLoading = FALSE]

FinishSteps == <<"flushBufferedContent", "markStreamingComplete", "finally">>

clearRef(s, k) == [s EXCEPT !.calls[k].phase = "returned",
                            !.ref = IF s.ref = k THEN 0 ELSE s.ref]

(* the catch block of handleUserMessage before its flush *)
catchCancelled(prev) == appendToLastMessage(prev, CancelNotice)

catchError(prev) ==
    appendToLastMessage(addError(prev, "api_error", "Message Send Failed"), ErrorNotice)

(* apiClient.sendMessageStream resolves with the response body *)
SendMessageStreamResolves ==
    \E k \in 1..Len(session.calls) :
        /\ session.calls[k].phase = "fetching"
        /\ ~session.calls[k].aborted
        /\ session' = [session EXCEPT !.calls[k].phase = "open"]
        /\ lastOp' = [NoOp EXCEPT !.op = "sendMessageStream", !.branch = "resolved"]
        /\ UNCHANGED <<chatState, nextId, pendingUpdates, flushTimers, toolUpdates, otherVars>>

(* apiClient.sendMessageStream throws: Request cancelled when the fetch    *)
(* was aborted, else the HTTP or network error; handleUserMessage runs its *)
(* catch and finally blocks                                                *)
SendMessageStreamThrows ==
    \E k \in 1..Len(session.calls) :
        /\ session.calls[k].phase = "fetching"
        /\ chatState' = finishStreaming(IF session.calls[k].aborted
                                        THEN catchCancelled(chatState)
                                        ELSE catchError(chatState),
                                        session.calls[k].agentMessageId)
        /\ session' = clearRef(session, k)
        /\ lastOp' = [NoOp EXCEPT
                        !.op = "sendMessageStream",
                        !.branch = IF session.calls[k].aborted THEN "cancelled" ELSE "error",
                        !.steps = <<"appendToLastMessage">> \o FinishSteps]
        /\ UNCHANGED <<nextId, pendingUpdates, flushTimers, toolUpdates, otherVars>>

(* the onChunk callback of handleUserMessage: processStreamingChunk(chunk) *)
ProcessStreamingChunk ==
    /\ session.chunks < MaxChunks
    /\ \E k \in 1..Len(session.calls) :
         /\ session.calls[k].phase = "open"
         /\ ~session.calls[k].aborted
    /\ \E chunk \in Chunks :
         LET r == processStreamingChunk(chatState, chunk, nextId)
         IN /\ chatState' = r.state
            /\ pendingUpdates' = pendingUpdates \o r.nested
            /\ flushTimers' = flushTimers + r.timers
            /\ nextId' = nextId + r.ids
            /\ lastOp' = [NoOp EXCEPT !.op = "processStreamingChunk", !.chunk = chunk,
                                      !.branch = r.branch]
    /\ session' = [session EXCEPT !.chunks = @ + 1]
    /\ UNCHANGED <<toolUpdates, otherVars>>

(* a setChatState updater that was queued from inside another updater runs *)
ApplyPendingUpdate ==
    /\ pendingUpdates # <<>>
    /\ LET u == Head(pendingUpdates)
       IN chatState' = IF u.kind = "appendToLastMessage"
                       THEN appendToLastMessage(chatState, u.content)
                       ELSE updateToolCall(chatState, u.toolCall)
    /\ pendingUpdates' = Tail(pendingUpdates)
    /\ lastOp' = [NoOp EXCEPT !.op = Head(pendingUpdates).kind,
                              !.chunk = Head(pendingUpdates).content,
                              !.toolCall = Head(pendingUpdates).toolCall]
    /\ UNCHANGED <<nextId, flushTimers, session, toolUpdates, otherVars>>

(* setTimeout(() => flushBufferedContent(), 100) fires *)
FlushTimerFires ==
    /\ flushTimers > 0
    /\ chatState' = flushBufferedContent(chatState)
    /\ flushTimers' = flushTimers - 1
    /\ lastOp' = [NoOp EXCEPT !.op = "flushBufferedContent"]
    /\ UNCHANGED <<nextId, pendingUpdates, session, toolUpdates, otherVars>>

(* updateToolCall as returned by the hook, called by the hook's user *)
UpdateToolCall ==
    /\ toolUpdates < MaxToolUpdates
    /\ \E toolCall \in ExternalToolCalls :
         /\ chatState' = updateToolCall(chatState, toolCall)
         /\ lastOp' = [NoOp EXCEPT !.op = "updateToolCall", !.toolCall = toolCall]
    /\ toolUpdates' = toolUpdates + 1
    /\ UNCHANGED <<nextId, pendingUpdates, flushTimers, session, otherVars>>

(* cancelCurrentRequest: the state and the controllers after the call *)
cancelWithNotice(prev, s) ==
    IF s.ref # 0
    THEN [chat |-> [catchCancelled(prev) EXCEPT !.isLoading = FALSE], session |-> abortRef(s)]
    ELSE [chat |-> prev, session |-> s]

cancelCurrentRequest(prev, s) ==
    IF s.ref # 0
    THEN [chat |-> [prev EXCEPT !.isLoading = FALSE], session |-> abortRef(s)]
    ELSE [chat |-> prev, session |-> s]

(* With a null ref the call changes nothing.  The branch of lastOp tells   *)
(* whether the controller was already aborted when the call was made.      *)
CancelCurrentRequest ==
    /\ session.ref # 0
    /\ chatState' = cancelCurrentRequest(chatState, session).chat
    /\ session' = cancelCurrentRequest(chatState, session).session
    /\ lastOp' = [NoOp EXCEPT !.op = "cancelCurrentRequest",
                              !.branch = IF session.calls[session.ref].aborted
                                         THEN "again" ELSE "first"]
    /\ UNCHANGED <<nextId, pendingUpdates, flushTimers, toolUpdates, otherVars>>

(* processStreamingResponse reads done: its residual onChunk, if any, then *)
(* handleUserMessage flushes, marks the message complete and runs finally  *)
StreamDone ==
    \E k \in 1..Len(session.calls) :
        /\ session.calls[k].phase = "open"
        /\ ~session.calls[k].aborted
        /\ \/ /\ chatState' = finishStreaming(chatState, session.calls[k].agentMessageId)
              /\ session' = clearRef(session, k)
              /\ lastOp' = [NoOp EXCEPT !.op = "streamEnd", !.branch = "done",
                                        !.steps = FinishSteps]
              /\ UNCHANGED <<nextId, pendingUpdates, flushTimers>>
           \/ /\ session.chunks < MaxChunks
              /\ \E chunk \in Chunks :
                   LET r == processStreamingChunk(chatState, chunk, nextId)
                   IN /\ chatState' = finishStreaming(r.state, session.calls[k].agentMessageId)
                      /\ pendingUpdates' = pendingUpdates \o r.nested
                      /\ flushTimers' = flushTimers + r.timers
                      /\ nextId' = nextId + r.ids
              /\ session' = [clearRef(session, k) EXCEPT !.chunks = @ + 1]
              /\ lastOp' = [NoOp EXCEPT !.op = "streamEnd", !.branch = "done",
                                        !.steps = <<"processStreamingChunk">> \o FinishSteps]
        /\ UNCHANGED <<toolUpdates, otherVars>>

(* reader.read() rejects, or the loop of processStreamingResponse finds    *)
(* the signal aborted: its catch calls onError and the function returns    *)
(* normally; onError adds an error unless the signal is aborted            *)
StreamFails ==
    \E k \in 1..Len(session.calls) :
        /\ session.calls[k].phase = "open"
        /\ chatState' = finishStreaming(IF session.calls[k].aborted THEN chatState
                                        ELSE addError(chatState, "api_error", "Streaming Error"),
                                        session.calls[k].agentMessageId)
        /\ session' = clearRef(session, k)
        /\ lastOp' = [NoOp EXCEPT
                        !.op = "streamEnd",
                        !.branch = IF session.calls[k].aborted THEN "cancelled" ELSE "error",
                        !.steps = <<"onError">> \o FinishSteps]
        /\ UNCHANGED <<nextId, pendingUpdates, flushTimers, toolUpdates, otherVars>>

ChatNext ==
    \/ HandleUserMessage
    \/ SendMessageStreamResolves
    \/ SendMessageStreamThrows
    \/ ProcessStreamingChunk
    \/ ApplyPendingUpdate
    \/ FlushTimerFires
    \/ UpdateToolCall
    \/ CancelCurrentRequest
    \/ StreamDone
    \/ StreamFails

(* ----------------------- streams of the two clients -------------------- *)
(* buffer.split('\n'): the lines, the last one being the unterminated rest *)
RECURSIVE SplitNL(_)
SplitNL(text) ==
    IF Has(text, NL)
    THEN LET i == CHOOSE k \in 1..Len(text) : text[k] = NL /\ \A j \in 1..(k - 1) : text[j] # NL
         IN <<SubSeq(text, 1, i - 1)>> \o SplitNL(SubSeq(text, i + 1, Len(text)))
    ELSE <<text>>

AllButLast(s) == SubSeq(s, 1, Len(s) - 1)

Last(s) == s[Len(s)]

PlainStartLine == <<WRENCH, ExecutingToolPlain, "web_search">>
BoldStartLine == <<WRENCH, ExecutingToolBold, "web_search">>
ResultLine == <<CHECK, ResultBold, "done">>
ErrorLine == <<CROSS, ErrorBold, "boom">>
ErrorNotCompletedLine == <<CROSS, ErrorBold, "completed">>
HelloLine == <<"Hello">>
NamelessStartLine == <<WRENCH, ExecutingToolPlain>>

StreamLines == {PlainStartLine, BoldStartLine, ResultLine, ErrorLine, ErrorNotCompletedLine,
                HelloLine, NamelessStartLine}

(* what one reader.read() delivers: a terminated line, or two of them *)
StreamChunks ==
    {line \o <<NL>> : line \in StreamLines} \cup {HelloLine \o <<NL>> \o <<"world", NL>>}

(* a callback invocation: the callback, its argument, and the line of the *)
(* stream whose processing fired it                                        *)
Event(cb, toolCall, text, line) ==
    [cb |-> cb, toolCall |-> toolCall, text |-> text, line |-> line]

(* ------------------------ SimpleStreamingClient ------------------------ *)
(* toolMatch of processLine: the icon, later the text Tool: directly       *)
(* followed by a word; the tool name, "" when there is no match            *)
simpleToolMatch(trimmed) ==
    LET ok(j) == /\ trimmed[j] = ExecutingToolPlain
                 /\ WordAfter(trimmed, j) # ""
                 /\ \E i \in 1..(j - 1) : trimmed[i] = WRENCH
    IN IF \E j \in 1..Len(trimmed) : ok(j)
       THEN WordAfter(trimmed, CHOOSE j \in 1..Len(trimmed) :
                                   ok(j) /\ \A k \in (j + 1)..Len(trimmed) : ~ok(k))
       ELSE ""

(* errorMatch of processLine: the icon, later the text Error: ; the        *)
(* position of the label, 0 when there is no match                         *)
simpleErrorMatch(trimmed) ==
    LET ok(j) == trimmed[j] \in {ErrorBold, ErrorPlain} /\ \E i \in 1..(j - 1) : trimmed[i] = CROSS
    IN IF \E j \in 1..Len(trimmed) : ok(j)
       THEN CHOOSE j \in 1..Len(trimmed) : ok(j) /\ \A k \in (j + 1)..Len(trimmed) : ~ok(k)
       ELSE 0

(* processLine: the returned tool call (NoToolCall for null) and the callbacks fired *)
processLine(trimmed, currentToolCall, id) ==
    IF /\ Has(trimmed, WRENCH)
       /\ HasAny(trimmed, {ExecutingToolBold, ExecutingToolPlain})
       /\ simpleToolMatch(trimmed) # ""
    THEN LET toolCall == NewToolCall(id, simpleToolMatch(trimmed))
         IN [ret |-> toolCall, events |-> <<Event("onToolCall", toolCall, <<>>, trimmed)>>,
             ids |-> 1]
    ELSE IF currentToolCall # NoToolCall /\ (Has(trimmed, CHECK) \/ Has(trimmed, CROSS))
    THEN LET completedToolCall ==
                 [currentToolCall EXCEPT
                    !.status = IF Has(trimmed, CHECK) THEN "completed" ELSE "failed",
                    !.endTime = TRUE,
                    !.result = IF Has(trimmed, CHECK) THEN "Success" ELSE "Failed"]
         IN [ret |-> NoToolCall, events |-> <<Event("onToolCall", completedToolCall, <<>>, trimmed)>>,
             ids |-> 0]
    ELSE IF Has(trimmed, CROSS) /\ HasAny(trimmed, {ErrorBold, ErrorPlain})
            /\ simpleErrorMatch(trimmed) > 0
    THEN [ret |-> currentToolCall,
          events |-> <<Event("onError", NoToolCall,
                             SubSeq(trimmed, simpleErrorMatch(trimmed) + 1, Len(trimmed)),
                             trimmed)>>,
          ids |-> 0]
    ELSE IF ~Has(trimmed, WRENCH) /\ ~Has(trimmed, CHECK) /\ ~Has(trimmed, CROSS)
            /\ trimmed # <<>>
    THEN [ret |-> currentToolCall,
          events |-> <<Event("onContent", NoToolCall, trimmed \o <<NL>>, trimmed)>>, ids |-> 0]
    ELSE [ret |-> currentToolCall, events |-> <<>>, ids |-> 0]

(* the for loop of processStream over the complete lines of one read *)
RECURSIVE simpleProcessLines(_, _)
simpleProcessLines(lines, st) ==
    IF lines = <<>> THEN st
    ELSE IF Head(lines) = <<>> THEN simpleProcessLines(Tail(lines), st)
    ELSE LET r == processLine(Head(lines), st.currentToolCall, st.nextId)
         IN simpleProcessLines(Tail(lines),
                [st EXCEPT !.currentToolCall = IF r.ret # NoToolCall THEN r.ret ELSE @,
                           !.log = @ \o r.events,
                           !.nextId = @ + r.ids])

(* aborted is the signal of this.controller; aborts counts the calls of   *)
(* abort(), 2 standing for two or more; abortedAt is the length of the log *)
(* at the first of them                                                    *)
SimpleInitial ==
    [phase |-> "idle", buffer |-> <<>>, currentToolCall |-> NoToolCall, log |-> <<>>,
     reads |-> 0, nextId |-> 1, aborted |-> FALSE, aborts |-> 0, abortedAt |-> 0]

TransportError == <<"HTTP 500">>

(* startStream up to the await of fetch *)
SimpleStartStream ==
    /\ simple.phase = "idle"
    /\ simple' = [simple EXCEPT !.phase = "fetching", !.aborted = FALSE]
    /\ UNCHANGED <<openAIChat, decoding, chatVars, robust, response, simpleChat>>

(* fetch resolves with an OK response that has a body: processStream starts reading *)
SimpleFetchResolves ==
    /\ simple.phase = "fetching"
    /\ ~simple.aborted
    /\ simple' = [simple EXCEPT !.phase = "reading"]
    /\ UNCHANGED <<openAIChat, decoding, chatVars, robust, response, simpleChat>>

(* the catch block of startStream: an AbortError returns silently, any     *)
(* other error is passed to onError                                        *)
simpleCatch(st) ==
    IF st.aborted
    THEN [st EXCEPT !.phase = "aborted"]
    ELSE [st EXCEPT !.phase = "failed",
                    !.log = @ \o <<Event("onError", NoToolCall, TransportError, <<>>)>>]

(* fetch rejects, the response is not OK or has no body, or reader.read()  *)
(* rejects: the error reaches the catch block of startStream               *)
SimpleThrows ==
    /\ simple.phase \in {"fetching", "reading"}
    /\ simple' = simpleCatch(simple)
    /\ UNCHANGED <<openAIChat, decoding, chatVars, robust, response, simpleChat>>

(* processStream: one reader.read() that delivers a chunk *)
SimpleRead ==
    /\ simple.phase = "reading"
    /\ ~simple.aborted
    /\ simple.reads < MaxLines
    /\ \E chunk \in StreamChunks :
         LET lines == SplitNL(simple.buffer \o chunk)
         IN simple' = [simpleProcessLines(AllButLast(lines), simple)
                       EXCEPT !.buffer = Last(lines), !.reads = @ + 1]
    /\ UNCHANGED <<openAIChat, decoding, chatVars, robust, response, simpleChat>>

(* processStream: reader.read() reports done *)
SimpleDone ==
    /\ simple.phase = "reading"
    /\ ~simple.aborted
    /\ simple' = [simpleProcessLines(<<simple.buffer>>, simple)
                  EXCEPT !.phase = "done",
                         !.log = @ \o <<Event("onComplete", NoToolCall, <<>>, <<>>)>>]
    /\ UNCHANGED <<openAIChat, decoding, chatVars, robust, response, simpleChat>>

(* abort(): this.controller.abort() *)
simpleAbort(st) ==
    [st EXCEPT !.aborted = TRUE, !.abortedAt = IF st.aborted THEN @ ELSE Len(st.log)]

SimpleAbort ==
    /\ simple.phase # "idle"
    /\ simple' = [simpleAbort(simple) EXCEPT !.aborts = IF @ < 2 THEN @ + 1 ELSE @]
    /\ UNCHANGED <<openAIChat, decoding, chatVars, robust, response, simpleChat>>

SimpleNext ==
    \/ SimpleStartStream
    \/ SimpleFetchResolves
    \/ SimpleThrows
    \/ SimpleRead
    \/ SimpleDone
    \/ SimpleAbort

(* ------------------------ RobustStreamingClient ------------------------ *)
(* tokens in which the case-insensitive words of the patterns occur *)
SuccessWords == {"done", "completed"}

FailureWords == {ErrorBold, ErrorPlain}

ToolLabels == {ExecutingToolBold, ExecutingToolPlain}

(* some token of toks occurs after some token of icons *)
After(text, icons, toks) ==
    \E i \in 1..Len(text) : text[i] \in icons /\ \E j \in (i + 1)..Len(text) : text[j] \in toks

isToolCallStart(text) == After(text, {WRENCH}, ToolLabels)

isToolCallEnd(text) == After(text, {CHECK, CROSS}, SuccessWords \cup FailureWords)

isToolRelated(text) ==
    \/ HasAny(text, {WRENCH, CHECK, CROSS})
    \/ \E j \in 1..Len(text) : text[j] = ExecutingToolPlain /\ WordAfter(text, j) # ""

isErrorMessage(text) == After(text, {CROSS}, {ErrorBold, ErrorPlain})

(* extractToolCall: the first pattern captures the word after the text    *)
(* Tool: ; the third one, greedy, captures the last letter of Executing    *)
extractToolCall(text, id) ==
    LET ok(j) == /\ text[j] = ExecutingToolPlain
                 /\ WordAfter(text, j) # ""
                 /\ \E i \in 1..(j - 1) : text[i] = WRENCH
    IN IF \E j \in 1..Len(text) : ok(j)
       THEN NewToolCall(id, WordAfter(text, CHOOSE j \in 1..Len(text) :
                                               ok(j) /\ \A k \in (j + 1)..Len(text) : ~ok(k)))
       ELSE IF After(text, {WRENCH}, ToolLabels) THEN NewToolCall(id, "g")
       ELSE NoToolCall

completeToolCall(toolCall, text) ==
    LET isSuccess == \/ Has(text, CHECK)
                     \/ HasAny(text, SuccessWords)
                     \/ ~HasAny(text, FailureWords)
    IN [toolCall EXCEPT !.status = IF isSuccess THEN "completed" ELSE "failed",
                        !.endTime = TRUE,
                        !.result = IF isSuccess THEN "Success" ELSE "Failed"]

(* extractError: the text after the label, or after the icon *)
extractError(text) ==
    LET j == CHOOSE k \in 1..Len(text) :
                 /\ text[k] \in {ErrorBold, ErrorPlain}
                 /\ \E i \in 1..(k - 1) : text[i] = CROSS
                 /\ \A m \in (k + 1)..Len(text) : text[m] \notin {ErrorBold, ErrorPlain}
    IN IF j < Len(text) THEN SubSeq(text, j + 1, Len(text)) ELSE <<text[j]>>

(* processTextWithAccuracy: the current tool call it returns, the         *)
(* callbacks fired, and the content handed to scheduleContentProcessing    *)
processTextWithAccuracy(trimmed, currentToolCall, id) ==
    IF isToolCallStart(trimmed) /\ extractToolCall(trimmed, id) # NoToolCall
    THEN [toolCall |-> extractToolCall(trimmed, id),
          events |-> <<Event("onToolCall", extractToolCall(trimmed, id), <<>>, trimmed)>>,
          schedule |-> <<>>, ids |-> 1]
    ELSE IF currentToolCall # NoToolCall /\ isToolCallEnd(trimmed)
    THEN [toolCall |-> NoToolCall,
          events |-> <<Event("onToolCall", completeToolCall(currentToolCall, trimmed), <<>>,
                             trimmed)>>,
          schedule |-> <<>>, ids |-> 0]
    ELSE IF isErrorMessage(trimmed)
    THEN [toolCall |-> currentToolCall,
          events |-> <<Event("onError", NoToolCall, extractError(trimmed), trimmed)>>,
          schedule |-> <<>>, ids |-> 0]
    ELSE IF ~isToolRelated(trimmed)
    THEN [toolCall |-> currentToolCall, events |-> <<>>, schedule |-> trimmed, ids |-> 0]
    ELSE [toolCall |-> currentToolCall, events |-> <<>>, schedule |-> <<>>, ids |-> 0]

(* the for loop of processRobustStream over the complete lines of one     *)
(* read; scheduleContentProcessing replaces the pending timer              *)
RECURSIVE robustProcessLines(_, _)
robustProcessLines(lines, st) ==
    IF lines = <<>> THEN st
    ELSE IF Head(lines) = <<>> THEN robustProcessLines(Tail(lines), st)
    ELSE LET r == processTextWithAccuracy(Head(lines), st.currentToolCall, st.nextId)
         IN robustProcessLines(Tail(lines),
                [st EXCEPT !.currentToolCall = r.toolCall,
                           !.log = @ \o r.events,
                           !.nextId = @ + r.ids,
                           !.timer = IF r.schedule # <<>>
                                     THEN [armed |-> TRUE, content |-> r.schedule,
                                           line |-> Head(lines)]
                                     ELSE @])

NoTimer == [armed |-> FALSE, content |-> <<>>, line |-> <<>>]

RobustInitial ==
    [phase |-> "idle", textBuffer |-> <<>>, currentToolCall |-> NoToolCall,
     hasActiveToolCalls |-> FALSE, timer |-> NoTimer, log |-> <<>>, reads |-> 0, nextId |-> 1,
     aborted |-> FALSE, aborts |-> 0, abortedAt |-> 0]

(* startStream up to the await of fetch: a new controller, resetState *)
RobustStartStream ==
    /\ robust.phase = "idle"
    /\ robust' = [robust EXCEPT !.phase = "fetching", !.hasActiveToolCalls = FALSE,
                                !.timer = NoTimer, !.aborted = FALSE]
    /\ UNCHANGED <<openAIChat, decoding, chatVars, simple, response>>

(* fetch resolves with an OK response that has a body: processRobustStream starts reading *)
RobustFetchResolves ==
    /\ robust.phase = "fetching"
    /\ ~robust.aborted
    /\ robust' = [robust EXCEPT !.phase = "reading"]
    /\ UNCHANGED <<openAIChat, decoding, chatVars, simple, response>>

(* the catch block of startStream: an AbortError returns silently, any     *)
(* other error is passed to onError                                        *)
robustCatch(st) ==
    IF st.aborted
    THEN [st EXCEPT !.phase = "aborted"]
    ELSE [st EXCEPT !.phase = "failed",
                    !.log = @ \o <<Event("onError", NoToolCall, TransportError, <<>>)>>]

(* fetch rejects, the response is not OK or has no body, or reader.read()  *)
(* rejects: the error reaches the catch block of startStream               *)
RobustThrows ==
    /\ robust.phase \in {"fetching", "reading"}
    /\ robust' = robustCatch(robust)
    /\ UNCHANGED <<openAIChat, decoding, chatVars, simple, response>>

(* processRobustStream: one reader.read() that delivers a chunk *)
RobustRead ==
    /\ robust.phase = "reading"
    /\ ~robust.aborted
    /\ robust.reads < MaxLines
    /\ \E chunk \in StreamChunks :
         LET lines == SplitNL(robust.textBuffer \o chunk)
         IN robust' = IF Len(lines) > 1
                      THEN [robustProcessLines(AllButLast(lines), robust)
                            EXCEPT !.textBuffer = Last(lines), !.reads = @ + 1]
                      ELSE [robust EXCEPT !.textBuffer = @ \o chunk, !.reads = @ + 1]
    /\ UNCHANGED <<openAIChat, decoding, chatVars, simple, response>>

(* the 50 ms timer of scheduleContentProcessing fires *)
RobustTimerFires ==
    /\ robust.timer.armed
    /\ robust' = [robust EXCEPT
                    !.timer = NoTimer,
                    !.log = IF robust.timer.content # <<>> /\ ~robust.hasActiveToolCalls
                            THEN @ \o <<Event("onContent", NoToolCall,
                                              robust.timer.content \o <<NL>>,
                                              robust.timer.line)>>
                            ELSE @]
    /\ UNCHANGED <<openAIChat, decoding, chatVars, simple, response>>

(* processRobustStream: reader.read() reports done *)
RobustDone ==
    /\ robust.phase = "reading"
    /\ ~robust.aborted
    /\ robust' = [robustProcessLines(<<robust.textBuffer>>, robust)
                  EXCEPT !.phase = "done",
                         !.log = @ \o <<Event("onComplete", NoToolCall, <<>>, <<>>)>>]
    /\ UNCHANGED <<openAIChat, decoding, chatVars, simple, response>>

(* abort(): this.controller.abort() and clearTimeout of the content timer *)
robustAbort(st) ==
    [st EXCEPT !.aborted = TRUE, !.abortedAt = IF st.aborted THEN @ ELSE Len(st.log),
               !.timer = NoTimer]

RobustAbort ==
    /\ robust.phase # "idle"
    /\ robust' = [robustAbort(robust) EXCEPT !.aborts = IF @ < 2 THEN @ + 1 ELSE @]
    /\ UNCHANGED <<openAIChat, decoding, chatVars, simple, response>>

(* ------------------------------ useSimpleChat -------------------------- *)
(* closureToolCalls is the activeToolCalls that the sendMessage callback   *)
(* in use has captured; streamingClient tells that the ref is set          *)
SimpleChatInitial ==
    [messages |-> <<>>, isLoading |-> FALSE, activeToolCalls |-> <<>>, currentStreamingId |-> 0,
     streamingClient |-> FALSE, closureToolCalls |-> <<>>, agentMessageId |-> 0, cancels |-> 0]

(* sendMessage up to the call of startStream; the messages get the ids 1 and 2 *)
sendMessage(h) ==
    [h EXCEPT !.messages = @ \o <<NewMessage(1, "user"), NewMessage(2, "agent")>>,
              !.isLoading = TRUE, !.currentStreamingId = 2, !.streamingClient = TRUE,
              !.closureToolCalls = h.activeToolCalls, !.agentMessageId = 2]

updateMessageContent(h, messageId, content) ==
    [h EXCEPT !.messages = [i \in 1..Len(h.messages) |->
                               IF h.messages[i].id = messageId
                               THEN [h.messages[i] EXCEPT !.content = @ \o content]
                               ELSE h.messages[i]]]

updateMessageToolCalls(h, messageId, toolCalls) ==
    [h EXCEPT !.messages = [i \in 1..Len(h.messages) |->
                               IF h.messages[i].id = messageId
                               THEN [h.messages[i] EXCEPT !.toolCalls = toolCalls]
                               ELSE h.messages[i]]]

(* one callback of the four that sendMessage passes to startStream *)
simpleChatCallback(h, e) ==
    CASE e.cb = "onContent" -> updateMessageContent(h, h.agentMessageId, e.text)
      [] e.cb = "onToolCall" ->
           updateMessageToolCalls(
               [h EXCEPT !.activeToolCalls = upsertToolCall(@, e.toolCall)],
               h.agentMessageId,
               [i \in 1..Len(h.closureToolCalls) |->
                   IF h.closureToolCalls[i].id = e.toolCall.id THEN e.toolCall
                   ELSE h.closureToolCalls[i]])
      [] e.cb = "onError" ->
           updateMessageContent(h, h.agentMessageId, <<NL, NL, CROSS, ErrorPlain>> \o e.text)
      [] OTHER ->
           [h EXCEPT !.messages = [i \in 1..Len(h.messages) |->
                                      IF h.messages[i].id = h.agentMessageId
                                      THEN [h.messages[i] EXCEPT !.isStreaming = FALSE,
                                                                 !.streamingComplete = TRUE]
                                      ELSE h.messages[i]],
                     !.isLoading = FALSE, !.currentStreamingId = 0, !.activeToolCalls = <<>>]

RECURSIVE simpleChatCallbacks(_, _)
simpleChatCallbacks(h, events) ==
    IF events = <<>> THEN h
    ELSE simpleChatCallbacks(simpleChatCallback(h, Head(events)), Tail(events))

(* cancelStreaming: the hook and its client after the call *)
cancelStreaming(h, client) ==
    IF h.streamingClient
    THEN [hook |-> [h EXCEPT !.isLoading = FALSE, !.currentStreamingId = 0],
          client |-> robustAbort(client)]
    ELSE [hook |-> h, client |-> client]

(* cancels counts the calls, 2 standing for two or more *)
CancelStreaming ==
    /\ simpleChat.streamingClient
    /\ simpleChat' = [cancelStreaming(simpleChat, robust).hook
                      EXCEPT !.cancels = IF @ < 2 THEN @ + 1 ELSE @]
    /\ robust' = cancelStreaming(simpleChat, robust).client
    /\ UNCHANGED <<openAIChat, decoding, chatVars, simple, response>>

(* a step of the client; the callbacks it fires run in useSimpleChat, and  *)
(* startStream is called by sendMessage                                    *)
RobustClientStep(A) ==
    /\ A
    /\ simpleChat' = simpleChatCallbacks(
                         IF robust.phase = "idle" THEN sendMessage(simpleChat) ELSE simpleChat,
                         SubSeq(robust'.log, Len(robust.log) + 1, Len(robust'.log)))

RobustNext ==
    \/ RobustClientStep(RobustStartStream)
    \/ RobustClientStep(RobustFetchResolves)
    \/ RobustClientStep(RobustThrows)
    \/ RobustClientStep(RobustRead)
    \/ RobustClientStep(RobustTimerFires)
    \/ RobustClientStep(RobustDone)
    \/ RobustClientStep(RobustAbort)
    \/ CancelStreaming

(* ----------------------- processStreamingResponse ---------------------- *)
(* Here the words of the tool-start label are two tokens, so that the      *)
(* marker has more than one strict prefix.                                 *)
ExecutingWord == "**Executing"
ToolWord == "Tool:**"
Sentence == "The quick brown fox jumps over the lazy dog now"
UndefinedText == "undefined"
ControlChar == "BEL"
ReplacementChar == "U+FFFD"

(* toolCallMarkers *)
ToolCallMarkers == <<<<WRENCH, ExecutingWord, ToolWord>>, <<CHECK, ResultBold>>,
                     <<CROSS, ErrorBold>>>>

(* the length of a token in UTF-16 code units, with the space after it *)
Size(tok) ==
    CASE tok = NL -> 1
      [] tok = WRENCH -> 3
      [] tok \in {CHECK, CROSS} -> 2
      [] tok = ExecutingWord -> 12
      [] tok = ToolWord -> 8
      [] tok = ResultBold -> 12
      [] tok = ErrorBold -> 11
      [] tok \in {"Hello", "world"} -> 6
      [] tok = "web_search" -> 11
      [] tok \in {"done", "boom"} -> 5
      [] tok = Sentence -> 47
      [] tok = UndefinedText -> 9
      [] tok = ResearchComplete -> 24
      [] OTHER -> 1

RECURSIVE TextSize(_)
TextSize(text) == IF text = <<>> THEN 0 ELSE Size(Head(text)) + TextSize(Tail(text))

(* text.trim() is empty *)
isBlank(text) == \A i \in 1..Len(text) : text[i] = NL

StartsWith(text, pre) == Len(pre) <= Len(text) /\ SubSeq(text, 1, Len(pre)) = pre

EndsWith(text, suf) ==
    Len(suf) <= Len(text) /\ SubSeq(text, Len(text) - Len(suf) + 1, Len(text)) = suf

(* text.indexOf(pat) as a position from 1, 0 when absent *)
IndexOf(text, pat) ==
    LET at(i) == SubSeq(text, i, i + Len(pat) - 1) = pat
        I == {i \in 1..(Len(text) - Len(pat) + 1) : at(i)}
    IN IF I = {} THEN 0 ELSE CHOOSE i \in I : \A j \in I : i <= j

(* the loop over toolCallMarkers: the earliest index of a marker, 0 when none *)
foundMarkerIndex(remainingBuffer) ==
    LET I == {IndexOf(remainingBuffer, ToolCallMarkers[m]) : m \in 1..Len(ToolCallMarkers)} \ {0}
    IN IF I = {} THEN 0 ELSE CHOOSE i \in I : \A j \in I : i <= j

(* the end of the buffer starts one of the markers *)
hasPartialMarkerAtStart(remainingBuffer) ==
    \E m \in 1..Len(ToolCallMarkers) : \E i \in 1..(Len(ToolCallMarkers[m]) - 1) :
        StartsWith(remainingBuffer, SubSeq(ToolCallMarkers[m], 1, i))

hasPartialMarker(remainingBuffer) ==
    \E m \in 1..Len(ToolCallMarkers) : \E i \in 1..(Len(ToolCallMarkers[m]) - 1) :
        EndsWith(remainingBuffer, SubSeq(ToolCallMarkers[m], 1, i))

HoldBackLength == 50

(* remainingBuffer.slice(0, -holdBackLength) and .slice(-holdBackLength):  *)
(* the number of tokens of the first; exact tells that the cut falls       *)
(* between two tokens                                                      *)
holdBack(remainingBuffer) ==
    LET holdBackLength == IF HoldBackLength < TextSize(remainingBuffer) THEN HoldBackLength
                          ELSE TextSize(remainingBuffer)
        keep == TextSize(remainingBuffer) - holdBackLength
        j == CHOOSE n \in 0..Len(remainingBuffer) :
                 /\ TextSize(SubSeq(remainingBuffer, 1, n)) <= keep
                 /\ \A n2 \in (n + 1)..Len(remainingBuffer) :
                        TextSize(SubSeq(remainingBuffer, 1, n2)) > keep
    IN [safeText |-> SubSeq(remainingBuffer, 1, j),
        heldText |-> SubSeq(remainingBuffer, j + 1, Len(remainingBuffer)),
        exact |-> TextSize(SubSeq(remainingBuffer, 1, j)) = keep]

(* the inner while loop: the processed text and what stays in the buffer *)
RECURSIVE processBuffer(_, _, _)
processBuffer(remainingBuffer, processedText, exact) ==
    IF remainingBuffer = <<>>
    THEN [processedText |-> processedText, buffer |-> <<>>, exact |-> exact]
    ELSE LET index == foundMarkerIndex(remainingBuffer)
         IN IF index = 0
            THEN IF hasPartialMarker(remainingBuffer)
                 THEN LET h == holdBack(remainingBuffer)
                      IN [processedText |-> IF isBlank(h.safeText) THEN processedText
                                            ELSE processedText \o h.safeText,
                          buffer |-> h.heldText, exact |-> exact /\ h.exact]
                 ELSE [processedText |-> processedText \o remainingBuffer, buffer |-> <<>>,
                       exact |-> exact]
            ELSE LET textBeforeMarker == SubSeq(remainingBuffer, 1, index - 1)
                     afterMarker == SubSeq(remainingBuffer, index, Len(remainingBuffer))
                     lineEndIndex == IndexOf(afterMarker, <<NL>>)
                     before == IF isBlank(textBeforeMarker) THEN processedText
                               ELSE processedText \o textBeforeMarker
                 IN IF lineEndIndex = 0
                    THEN [processedText |-> before, buffer |-> afterMarker, exact |-> exact]
                    ELSE processBuffer(SubSeq(afterMarker, lineEndIndex + 1, Len(afterMarker)),
                                       before \o SubSeq(afterMarker, 1, lineEndIndex), exact)

(* sanitizeStreamingText *)
sanitizeStreamingText(text) ==
    LET cleanText == SelectSeq(text, LAMBDA tok :
                                   tok \notin {UndefinedText, ControlChar, ReplacementChar})
    IN IF isBlank(cleanText) THEN <<>> ELSE cleanText

(* the onChunk calls that a processed text or a final buffer leads to *)
sendProcessed(text) ==
    IF ~isBlank(text) /\ sanitizeStreamingText(text) # <<>>
    THEN <<sanitizeStreamingText(text)>> ELSE <<>>

(* the streams the server sends *)
Texts ==
    { <<"Hello", NL, "world", NL>>,
      <<"Hello", WRENCH, ExecutingWord, ToolWord, "web_search", NL, "world">>,
      <<WRENCH, "Hello", NL>>,
      <<WRENCH, ExecutingWord, "Hello", NL>>,
      <<"Hello", Sentence, WRENCH, "world", NL>>,
      <<CHECK, ResultBold, "done", NL, "Hello">>,
      <<"Hello", CROSS, ErrorBold, "boom">>,
      <<UndefinedText, NL, "Hello", CROSS>>,
      <<CHECK, ResultBold, "done", NL, "Hello", WRENCH>>,
      <<"Hello", CHECK, "world", CROSS, ErrorBold, "boom", NL>>,
      <<"Hello", NL, ResearchComplete, NL, "world">> }

(* text is the stream, pos what was read of it, buffer the local of the    *)
(* function, out the arguments of the onChunk calls, errors those of the   *)
(* onError calls                                                           *)
ResponseInitial ==
    [phase |-> "idle", text |-> <<>>, pos |-> 0, buffer |-> <<>>, out |-> <<>>,
     errors |-> <<>>, reads |-> 0, exact |-> TRUE]

(* processStreamingResponse is called with the stream of a response *)
ResponseStart ==
    /\ response.phase = "idle"
    /\ \E text \in Texts : response' = [response EXCEPT !.phase = "reading", !.text = text]
    /\ UNCHANGED <<openAIChat, decoding, chatVars, simple, robust, simpleChat>>

(* one reader.read() whose text is passed on as it arrives *)
readChunkEager(st, n) ==
    LET chunk == SubSeq(st.text, st.pos + 1, st.pos + n)
    IN [st EXCEPT !.pos = @ + n, !.buffer = <<>>,
                  !.out = @ \o sendProcessed(st.buffer \o chunk), !.reads = @ + 1]

(* one reader.read() that delivers the next n tokens of the stream *)
readChunk(st, n) ==
    LET chunk == SubSeq(st.text, st.pos + 1, st.pos + n)
        r == processBuffer(st.buffer \o chunk, <<>>, st.exact)
    IN [st EXCEPT !.pos = @ + n, !.buffer = r.buffer, !.exact = r.exact,
                  !.out = @ \o sendProcessed(r.processedText), !.reads = @ + 1]

ResponseRead ==
    /\ response.phase = "reading"
    /\ response.reads < MaxReads
    /\ \E n \in 1..(Len(response.text) - response.pos) : response' = readChunk(response, n)
    /\ UNCHANGED <<openAIChat, decoding, chatVars, simple, robust, simpleChat>>

(* reader.read() reports done: the final buffer flush *)
ResponseDone ==
    /\ response.phase = "reading"
    /\ response.pos = Len(response.text)
    /\ response' = [response EXCEPT !.phase = "done", !.buffer = <<>>,
                                    !.out = @ \o sendProcessed(response.buffer)]
    /\ UNCHANGED <<openAIChat, decoding, chatVars, simple, robust, simpleChat>>

(* reader.read() rejects: the catch block calls onError *)
ResponseThrows ==
    /\ response.phase = "reading"
    /\ response' = [response EXCEPT !.phase = "failed",
                                    !.errors = Append(@, TransportError)]
    /\ UNCHANGED <<openAIChat, decoding, chatVars, simple, robust, simpleChat>>

ResponseNext == ResponseStart \/ ResponseRead \/ ResponseDone \/ ResponseThrows

(* ------------- processStreamingResponse feeding useChat ---------------- *)
(* the text of a chunk in the tokens of processStreamingChunk *)
RECURSIVE Coarse(_)
Coarse(text) ==
    IF Len(text) < 2 THEN text
    ELSE IF text[1] = ExecutingWord /\ text[2] = ToolWord
         THEN <<ExecutingToolBold>> \o Coarse(SubSeq(text, 3, Len(text)))
         ELSE <<text[1]>> \o Coarse(Tail(text))

(* the updaters queued from inside an updater, run in their order *)
RECURSIVE applyNested(_, _)
applyNested(prev, nested) ==
    IF nested = <<>> THEN prev
    ELSE applyNested(IF Head(nested).kind = "appendToLastMessage"
                     THEN appendToLastMessage(prev, Head(nested).content)
                     ELSE updateToolCall(prev, Head(nested).toolCall),
                     Tail(nested))

(* the onChunk callback of handleUserMessage called with each chunk in turn *)
RECURSIVE onChunkAll(_, _, _)
onChunkAll(prev, chunks, id) ==
    IF chunks = <<>> THEN prev
    ELSE LET r == processStreamingChunk(prev, Coarse(Head(chunks)), id)
         IN onChunkAll(applyNested(r.state, r.nested), Tail(chunks), id + r.ids)

(* handleUserMessage on a stream whose chunks reach onChunk as given: the  *)
(* content and the tool calls of the agent message at the end              *)
streamResult(chunks) ==
    LET final == finishStreaming(onChunkAll(startStreaming(InitialChatState, 1), chunks, 3), 2)
    IN [content |-> Coarse(final.messages[2].content),
        toolCalls |-> final.messages[2].toolCalls]

(* the onChunk calls when the whole stream arrives in one read *)
oneReadOut(text) ==
    LET st == readChunk([ResponseInitial EXCEPT !.phase = "reading", !.text = text], Len(text))
    IN st.out \o sendProcessed(st.buffer)

(* ------------------------------ useOpenAIChat -------------------------- *)
(* the state of the hook and the position of its handleUserMessage call;   *)
(* op is the operation that made the last step                             *)
OpenAIChatInitial ==
    [messages |-> <<>>, isLoading |-> FALSE, activeToolCalls |-> <<>>, errors |-> 0,
     phase |-> "idle", agentMessageId |-> 0, nextId |-> 1, reads |-> 0, n |-> 0,
     op |-> "init"]

(* updateMessageContent's updater of useOpenAIChat *)
openAIUpdateMessageContent(prev, messageId, content) ==
    [prev EXCEPT !.messages =
        [i \in 1..Len(prev.messages) |->
            IF prev.messages[i].id = messageId
            THEN [prev.messages[i] EXCEPT !.content = @ \o content]
            ELSE prev.messages[i]]]

(* completeMessage's updater *)
completeMessage(prev, messageId) ==
    [prev EXCEPT !.messages =
        [i \in 1..Len(prev.messages) |->
            IF prev.messages[i].id = messageId
            THEN [prev.messages[i] EXCEPT !.isStreaming = FALSE, !.streamingComplete = TRUE]
            ELSE prev.messages[i]],
                 !.isLoading = FALSE]

(* handleUserMessage of useOpenAIChat up to the await of sendMessageStream *)
OpenAIHandleUserMessage ==
    /\ openAIChat.n < MaxTurns
    /\ ~openAIChat.isLoading
    /\ openAIChat.phase \in {"idle", "returned"}
    /\ openAIChat' = [openAIChat EXCEPT
            !.messages = @ \o <<NewMessage(openAIChat.nextId, "user"),
                                NewMessage(openAIChat.nextId + 1, "agent")>>,
            !.isLoading = TRUE, !.phase = "fetching",
            !.agentMessageId = openAIChat.nextId + 1, !.nextId = @ + 2,
            !.reads = 0, !.n = @ + 1, !.op = "handleUserMessage"]
    /\ UNCHANGED <<chatVars, simple, robust, response, simpleChat, decoding>>

(* apiClient.sendMessageStream resolves *)
OpenAIFetchResolves ==
    /\ openAIChat.phase = "fetching"
    /\ openAIChat' = [openAIChat EXCEPT !.phase = "open", !.op = "sendMessageStream"]
    /\ UNCHANGED <<chatVars, simple, robust, response, simpleChat, decoding>>

(* one reader.read() of the loop of handleUserMessage *)
OpenAIRead ==
    /\ openAIChat.phase = "open"
    /\ openAIChat.reads < MaxReads
    /\ \E chunk \in {HelloChunk, WorldChunk} :
          openAIChat' = [openAIUpdateMessageContent(openAIChat, openAIChat.agentMessageId, chunk)
                         EXCEPT !.reads = @ + 1, !.op = "read"]
    /\ UNCHANGED <<chatVars, simple, robust, response, simpleChat, decoding>>

(* reader.read() reports done: completeMessage, then the finally block *)
OpenAIDone ==
    /\ openAIChat.phase = "open"
    /\ openAIChat' = [completeMessage(openAIChat, openAIChat.agentMessageId)
                      EXCEPT !.phase = "returned", !.op = "done"]
    /\ UNCHANGED <<chatVars, simple, robust, response, simpleChat, decoding>>

(* sendMessageStream or reader.read() throws: the catch and finally blocks *)
OpenAIThrows ==
    /\ openAIChat.phase \in {"fetching", "open"}
    /\ openAIChat' =
          [completeMessage(
               [openAIUpdateMessageContent(openAIChat, openAIChat.agentMessageId, ErrorNotice)
                EXCEPT !.errors = IF @ < 2 THEN @ + 1 ELSE @],
               openAIChat.agentMessageId)
           EXCEPT !.phase = "returned", !.op = "error"]
    /\ UNCHANGED <<chatVars, simple, robust, response, simpleChat, decoding>>

(* clearMessages of useOpenAIChat *)
OpenAIClearMessages ==
    /\ openAIChat' = [openAIChat EXCEPT !.messages = <<>>, !.activeToolCalls = <<>>,
                                        !.errors = 0, !.op = "clearMessages"]
    /\ UNCHANGED <<chatVars, simple, robust, response, simpleChat, decoding>>

OpenAINext ==
    \/ OpenAIHandleUserMessage
    \/ OpenAIFetchResolves
    \/ OpenAIRead
    \/ OpenAIDone
    \/ OpenAIThrows
    \/ OpenAIClearMessages

(* --------------------------- UTF-8 decoding ---------------------------- *)
(* A character is a token and its UTF-8 encoding a sequence of bytes       *)
(* [ch, k]: byte k of character ch.                                        *)
Utf8Length(ch) ==
    CASE ch = "a" -> 1
      [] ch = "e-acute" -> 2
      [] ch = "euro" -> 3
      [] ch = WRENCH -> 4
      [] OTHER -> 1

RECURSIVE encode(_)
encode(text) ==
    IF text = <<>> THEN <<>>
    ELSE [k \in 1..Utf8Length(Head(text)) |-> [ch |-> Head(text), k |-> k]] \o encode(Tail(text))

(* the first len bytes are the bytes 1..len of one character *)
IsSequenceStart(bytes, len) ==
    /\ len <= Len(bytes)
    /\ \A i \in 1..len : bytes[i] = [ch |-> bytes[1].ch, k |-> i]

(* TextDecoder('utf-8', fatal false).decode(bytes, stream true): the text  *)
(* and the incomplete sequence at the end that the decoder object keeps    *)
RECURSIVE decode(_)
decode(bytes) ==
    IF bytes = <<>> THEN [text |-> <<>>, pending |-> <<>>]
    ELSE IF IsSequenceStart(bytes, Utf8Length(bytes[1].ch))
    THEN LET rest == decode(SubSeq(bytes, Utf8Length(bytes[1].ch) + 1, Len(bytes)))
         IN [text |-> <<bytes[1].ch>> \o rest.text, pending |-> rest.pending]
    ELSE IF IsSequenceStart(bytes, Len(bytes))
    THEN [text |-> <<>>, pending |-> bytes]
    ELSE LET rest == decode(Tail(bytes))
         IN [text |-> <<ReplacementChar>> \o rest.text, pending |-> rest.pending]

(* the texts the server sends *)
DecodeTexts ==
    { <<"a", "e-acute", "a">>, <<"euro", "a">>, <<WRENCH, "a", NL>>, <<"a", WRENCH, "euro">> }

DecodeClients == {"processRobustStream", "processStreamingResponse", "processStream"}

(* client is the function that reads, stream the bytes of the response,    *)
(* pos what was read, pending the bytes inside its TextDecoder object,     *)
(* accumulatedBytes the local of processRobustStream, text what it decoded *)
DecodingInitial ==
    [phase |-> "idle", client |-> "", chars |-> <<>>, stream |-> <<>>, pos |-> 0,
     pending |-> <<>>, accumulatedBytes |-> <<>>, text |-> <<>>, reads |-> 0]

DecodeStart ==
    /\ decoding.phase = "idle"
    /\ \E text \in DecodeTexts, client \in DecodeClients :
          decoding' = [decoding EXCEPT !.phase = "reading", !.client = client,
                                       !.chars = text, !.stream = encode(text)]
    /\ UNCHANGED <<chatVars, simple, robust, response, simpleChat, openAIChat>>

(* one reader.read() that delivers the next n bytes.  processRobustStream  *)
(* makes a new TextDecoder for each read and empties accumulatedBytes; the *)
(* other two keep one decoder for the stream.                              *)
decodeRead(st, n) ==
    LET value == SubSeq(st.stream, st.pos + 1, st.pos + n)
        r == IF st.client = "processRobustStream"
             THEN decode(st.accumulatedBytes \o value)
             ELSE decode(st.pending \o value)
    IN [st EXCEPT !.pos = @ + n, !.reads = @ + 1, !.text = @ \o r.text,
                  !.accumulatedBytes = <<>>,
                  !.pending = IF st.client = "processRobustStream" THEN <<>> ELSE r.pending]

DecodeRead ==
    /\ decoding.phase = "reading"
    /\ decoding.reads < MaxReads
    /\ \E n \in 1..(Len(decoding.stream) - decoding.pos) : decoding' = decodeRead(decoding, n)
    /\ UNCHANGED <<chatVars, simple, robust, response, simpleChat, openAIChat>>

(* reader.read() reports done; accumulatedBytes is empty then *)
DecodeDone ==
    /\ decoding.phase = "reading"
    /\ decoding.pos = Len(decoding.stream)
    /\ decoding' = [decoding EXCEPT !.phase = "done"]
    /\ UNCHANGED <<chatVars, simple, robust, response, simpleChat, openAIChat>>

DecodeNext == DecodeStart \/ DecodeRead \/ DecodeDone

(* --------------------------- specifications ---------------------------- *)
Init == ChatInit /\ simple = SimpleInitial /\ robust = RobustInitial /\ response = ResponseInitial
        /\ simpleChat = SimpleChatInitial /\ openAIChat = OpenAIChatInitial
        /\ decoding = DecodingInitial

Next == ChatNext

Spec == Init /\ [][Next]_vars

SpecSimple == Init /\ [][SimpleNext]_vars

SpecRobust == Init /\ [][RobustNext]_vars

SpecResponse == Init /\ [][ResponseNext]_vars

(* The hooks and the clients under cancellation.  They share no state, and *)
(* a behaviour uses one of them.  The useChat hook runs without calls of   *)
(* its exported updateToolCall.                                            *)
ChatUnused == session.n = 0

SimpleUnused == simple.phase = "idle"

RobustUnused == robust.phase = "idle"

CancelNext ==
    \/ /\ SimpleUnused /\ RobustUnused
       /\ \/ HandleUserMessage
          \/ SendMessageStreamResolves
          \/ SendMessageStreamThrows
          \/ ProcessStreamingChunk
          \/ ApplyPendingUpdate
          \/ FlushTimerFires
          \/ CancelCurrentRequest
          \/ StreamDone
          \/ StreamFails
    \/ ChatUnused /\ RobustUnused /\ SimpleNext
    \/ ChatUnused /\ SimpleUnused /\ RobustNext

SpecCancel == Init /\ [][CancelNext]_vars

(* handleUserMessage with processStreamingResponse reading its stream: the *)
(* onChunk calls of a read run processStreamingChunk, whose queued         *)
(* updaters and timers run later.                                          *)
RECURSIVE onChunkQueued(_, _, _)
onChunkQueued(prev, chunks, id) ==
    IF chunks = <<>> THEN [state |-> prev, nested |-> <<>>, timers |-> 0, ids |-> 0]
    ELSE LET r == processStreamingChunk(prev, Coarse(Head(chunks)), id)
             rest == onChunkQueued(r.state, Tail(chunks), id + r.ids)
         IN [state |-> rest.state, nested |-> r.nested \o rest.nested,
             timers |-> r.timers + rest.timers, ids |-> r.ids + rest.ids]

(* handleUserMessage up to the first read of processStreamingResponse *)
PipelineStart ==
    /\ response.phase = "idle"
    /\ session.n = 0
    /\ \E text \in Texts : response' = [response EXCEPT !.phase = "reading", !.text = text]
    /\ chatState' = startStreaming(chatState, nextId)
    /\ nextId' = nextId + 2
    /\ session' = [session EXCEPT !.n = 1, !.ref = 1,
                                  !.calls = <<[NewCall(nextId + 1) EXCEPT !.phase = "open"]>>]
    /\ lastOp' = [NoOp EXCEPT !.op = "handleUserMessage"]
    /\ UNCHANGED <<pendingUpdates, flushTimers, toolUpdates, simple, robust, simpleChat, openAIChat, decoding>>

(* one reader.read() of processStreamingResponse and its onChunk call *)
PipelineRead ==
    /\ response.phase = "reading"
    /\ response.reads < MaxReads
    /\ \E n \in 1..(Len(response.text) - response.pos) :
         LET st == readChunk(response, n)
             r == onChunkQueued(chatState,
                                SubSeq(st.out, Len(response.out) + 1, Len(st.out)), nextId)
         IN /\ response' = st
            /\ chatState' = r.state
            /\ pendingUpdates' = pendingUpdates \o r.nested
            /\ flushTimers' = flushTimers + r.timers
            /\ nextId' = nextId + r.ids
    /\ lastOp' = [NoOp EXCEPT !.op = "processStreamingChunk"]
    /\ UNCHANGED <<session, toolUpdates, simple, robust, simpleChat, openAIChat, decoding>>

(* reader.read() reports done: the final buffer flush of                   *)
(* processStreamingResponse, then the end of handleUserMessage             *)
PipelineDone ==
    /\ response.phase = "reading"
    /\ response.pos = Len(response.text)
    /\ LET r == onChunkQueued(chatState, sendProcessed(response.buffer), nextId)
       IN /\ chatState' = finishStreaming(r.state, session.calls[1].agentMessageId)
          /\ pendingUpdates' = pendingUpdates \o r.nested
          /\ flushTimers' = flushTimers + r.timers
          /\ nextId' = nextId + r.ids
    /\ response' = [response EXCEPT !.phase = "done", !.buffer = <<>>,
                                    !.out = @ \o sendProcessed(response.buffer)]
    /\ session' = clearRef(session, 1)
    /\ lastOp' = [NoOp EXCEPT !.op = "streamEnd", !.branch = "done", !.steps = FinishSteps]
    /\ UNCHANGED <<toolUpdates, simple, robust, simpleChat, openAIChat, decoding>>

PipelineNext ==
    \/ PipelineStart
    \/ PipelineRead
    \/ PipelineDone
    \/ ApplyPendingUpdate
    \/ FlushTimerFires

SpecPipeline == Init /\ [][PipelineNext]_vars

(* A conversation of several turns in useChat: the user sends a message    *)
(* while the handler of an earlier one has not returned.  The hook runs    *)
(* without calls of its exported updateToolCall.                           *)
NextTurn == handleUserMessage(MaxTurns)

TurnsNext ==
    \/ NextTurn
    \/ SendMessageStreamResolves
    \/ SendMessageStreamThrows
    \/ ProcessStreamingChunk
    \/ ApplyPendingUpdate
    \/ FlushTimerFires
    \/ CancelCurrentRequest
    \/ StreamDone
    \/ StreamFails

SpecTurns == Init /\ [][TurnsNext]_vars

(* ------------------------------ clearMessages -------------------------- *)
(* clearMessages that empties the message list only *)
clearMessagesOnly(prev, s) ==
    [chat |-> [prev EXCEPT !.messages = <<>>], session |-> s]

(* clearMessages of useChat: the state and the controllers after the call *)
clearMessages(prev, s) ==
    [chat |-> [prev EXCEPT !.messages = <<>>,
                           !.activeToolCalls = <<>>,
                           !.isLoading = FALSE,
                           !.currentToolCall = NoToolCall,
                           !.streamingMessageId = 0,
                           !.bufferedContent = EmptyBuffer],
     session |-> abortRef(s)]

(* the user clears the chat; the branch of lastOp tells whether a request  *)
(* was going on                                                            *)
ClearMessages ==
    /\ chatState' = clearMessages(chatState, session).chat
    /\ session' = clearMessages(chatState, session).session
    /\ lastOp' = [NoOp EXCEPT !.op = "clearMessages",
                              !.branch = IF session.ref # 0 THEN "ongoing" ELSE "idle"]
    /\ UNCHANGED <<nextId, pendingUpdates, flushTimers, toolUpdates, otherVars>>

(* A conversation of several turns in useChat in which the user may clear  *)
(* the chat at any moment.  clearMessages aborts the request itself; the   *)
(* hook runs without calls of cancelCurrentRequest and updateToolCall.     *)
ClearChatNext ==
    \/ NextTurn
    \/ SendMessageStreamResolves
    \/ SendMessageStreamThrows
    \/ ProcessStreamingChunk
    \/ ApplyPendingUpdate
    \/ FlushTimerFires
    \/ StreamDone
    \/ StreamFails
    \/ ClearMessages

OpenAIUnused == openAIChat.op = "init"

(* the two hooks share no state, and a behaviour uses one of them *)
ClearNext ==
    \/ OpenAIUnused /\ ClearChatNext
    \/ ChatUnused /\ lastOp.op = "init" /\ OpenAINext

SpecClear == Init /\ [][ClearNext]_vars

SpecDecode == Init /\ [][DecodeNext]_vars

(* ------------------------- reading a callback log ---------------------- *)
Terminal == {"completed", "failed"}

IsStart(e, id) == e.cb = "onToolCall" /\ e.toolCall.id = id /\ e.toolCall.status = "executing"

IsResolution(e, id) == e.cb = "onToolCall" /\ e.toolCall.id = id /\ e.toolCall.status \in Terminal

(* the call id was reported executing at position i and is not resolved before position j *)
OpenSince(log, i, j, id) ==
    /\ i < j
    /\ IsStart(log[i], id)
    /\ \A k \in (i + 1)..(j - 1) : ~IsResolution(log[k], id)

LogIds(log) == {log[i].toolCall.id : i \in {k \in 1..Len(log) : log[k].cb = "onToolCall"}}

SomeOpenBefore(log, j) == \E id \in LogIds(log) : \E i \in 1..(j - 1) : OpenSince(log, i, j, id)

(* the call started last among those still open before position j *)
MostRecentOpenBefore(log, j, id) ==
    \E i \in 1..(j - 1) :
        /\ OpenSince(log, i, j, id)
        /\ \A id2 \in LogIds(log) : \A i2 \in (i + 1)..(j - 1) : ~OpenSince(log, i2, j, id2)

IsResultOrErrorLine(line) == isToolResultChunk(line) \/ isToolErrorChunk(line)

(* ------------------------------- claims -------------------------------- *)
(* the step appends to the displayed agent message through                 *)
(* appendToLastMessage or flushBufferedContent                              *)
DeliversContent ==
    /\ lastOp'.op \in {"appendToLastMessage", "flushBufferedContent"}
    /\ LastContent(chatState') # LastContent(chatState)

(* C1: in the useChat hook, in a state where some ToolCall of              *)
(* activeToolCalls is executing, no content is delivered to the displayed  *)
(* agent message by appendToLastMessage or flushBufferedContent.           *)
C1_NoDeliveryWhileExecuting ==
    [][SomeExecuting(chatState.activeToolCalls) => ~DeliversContent]_vars

(* C2: no onContent fires between the onToolCall that reports a call       *)
(* executing and the onToolCall that reports that call completed or failed *)
(* (RobustStreamingClient).                                                *)
C2_NoContentWhileExecuting ==
    \A j \in 1..Len(robust.log) :
        robust.log[j].cb = "onContent" => ~SomeOpenBefore(robust.log, j)

(* C3: at the step in which a result or error marker is processed while    *)
(* the last call is the only one executing, that call resolves and all     *)
(* buffered content is delivered to the agent message, in order and exact. *)
LastExecutingOnly(st) ==
    /\ lastToolCallOf(st).status = "executing"
    /\ \A i \in 1..(Len(st.activeToolCalls) - 1) : st.activeToolCalls[i].status # "executing"

C3_FlushWhenLastCallResolves ==
    [][(/\ lastOp'.op = "processStreamingChunk"
        /\ IsResultOrErrorLine(lastOp'.chunk)
        /\ LastExecutingOnly(chatState))
       => (/\ ~SomeExecuting(chatState'.activeToolCalls)
           /\ chatState'.bufferedContent.chunks = <<>>
           /\ LastContent(chatState') =
                  LastContent(chatState) \o Join(chatState.bufferedContent.chunks))]_vars

(* C4: whenever bufferedContent.hasActiveToolCalls is false,               *)
(* bufferedContent.chunks is empty.                                        *)
C4_UnblockedMeansEmptyBuffer ==
    ~chatState.bufferedContent.hasActiveToolCalls => chatState.bufferedContent.chunks = <<>>

(* C5: bufferedContent.hasActiveToolCalls is true if and only if some      *)
(* ToolCall of activeToolCalls is executing.                               *)
C5_BlockedIffExecuting ==
    chatState.bufferedContent.hasActiveToolCalls <=> SomeExecuting(chatState.activeToolCalls)

(* C6: a tool call never moves backward: once an id was reported completed *)
(* or failed, no later onToolCall snapshot of that id differs in status,   *)
(* result or error (SimpleStreamingClient).                                *)
C6_TerminalIsImmutable ==
    \A i \in 1..Len(simple.log) : \A j \in (i + 1)..Len(simple.log) :
        (/\ simple.log[i].cb = "onToolCall"
         /\ simple.log[i].toolCall.status \in Terminal
         /\ simple.log[j].cb = "onToolCall"
         /\ simple.log[j].toolCall.id = simple.log[i].toolCall.id)
        => (/\ simple.log[j].toolCall.status = simple.log[i].toolCall.status
            /\ simple.log[j].toolCall.result = simple.log[i].toolCall.result
            /\ simple.log[j].toolCall.error = simple.log[i].toolCall.error)

(* C7: processing a tool-start marker chunk in useChat creates exactly one *)
(* new executing ToolCall in activeToolCalls, with an id no other call     *)
(* has, and makes it the current call.                                     *)
C7_ToolStartCreatesCall ==
    [][(lastOp'.op = "processStreamingChunk" /\ isToolStartChunk(lastOp'.chunk))
       => (/\ Len(chatState'.activeToolCalls) = Len(chatState.activeToolCalls) + 1
           /\ lastToolCallOf(chatState').status = "executing"
           /\ IndexOfId(chatState.activeToolCalls, lastToolCallOf(chatState').id) = 0
           /\ chatState'.currentToolCall = lastToolCallOf(chatState')
           /\ SubSeq(chatState'.activeToolCalls, 1, Len(chatState.activeToolCalls))
                  = chatState.activeToolCalls)]_vars

(* C8: a result or error marker is applied to the most recently started    *)
(* call that is still executing, and to no other call                      *)
(* (SimpleStreamingClient).                                                *)
C8_ResolvesMostRecentOpenCall ==
    \A j \in 1..Len(simple.log) :
        (simple.log[j].cb = "onToolCall" /\ simple.log[j].toolCall.status \in Terminal)
        => MostRecentOpenBefore(simple.log, j, simple.log[j].toolCall.id)

(* C9: a resolution reported for an error line (the CROSS icon) has       *)
(* status failed, a resolution reported for a result line (the CHECK icon) *)
(* has status completed, and the end time is stamped: completeToolCall     *)
(* never reports completed for an error line nor failed for a result line  *)
(* (RobustStreamingClient).                                                *)
C9_ErrorFailsResultCompletes ==
    \A j \in 1..Len(robust.log) :
        LET e == robust.log[j]
        IN (e.cb = "onToolCall" /\ e.toolCall.status \in Terminal)
           => (/\ e.toolCall.endTime
               /\ (Has(e.line, CROSS) /\ ~Has(e.line, CHECK)) => e.toolCall.status = "failed"
               /\ (Has(e.line, CHECK) /\ ~Has(e.line, CROSS)) => e.toolCall.status = "completed")

(* C10: a result or error marker that arrives when no tool call is open    *)
(* fires no onToolCall, onError or onContent callback                      *)
(* (SimpleStreamingClient).                                                *)
C10_OrphanMarkerDiscarded ==
    \A j \in 1..Len(simple.log) :
        IsResultOrErrorLine(simple.log[j].line) => SomeOpenBefore(simple.log, j)

(* C11: when a session is finalized (here: SimpleStreamingClient fires     *)
(* onComplete at the end of the stream), no tool call is still open: every *)
(* call reported executing was reported completed before the terminal      *)
(* callback.                                                               *)
C11_NoExecutingAfterFinalization ==
    \A j \in 1..Len(simple.log) :
        simple.log[j].cb = "onComplete" => ~SomeOpenBefore(simple.log, j)

(* the content of the message with the given id *)
MessageContent(st, id) ==
    IF \E i \in 1..Len(st.messages) : st.messages[i].id = id
    THEN st.messages[CHOOSE i \in 1..Len(st.messages) : st.messages[i].id = id].content
    ELSE <<>>

(* the step leaves the content of the agent message of call k as it is, or *)
(* appends the cancellation notice to it                                   *)
OnlyCancelNotice(k) ==
    LET id == session.calls[k].agentMessageId
    IN MessageContent(chatState', id) \in
           {MessageContent(chatState, id), MessageContent(chatState, id) \o CancelNotice}

(* C12: once a useChat session is cancelled while bufferedContent.chunks   *)
(* holds content, no step appends that content to the session's agent      *)
(* message.                                                                *)
C12_NoFlushAfterCancel ==
    [][\A k \in 1..Len(session.calls) :
          (session.calls[k].aborted /\ chatState.bufferedContent.chunks # <<>>)
          => OnlyCancelNotice(k)]_vars

(* C13: once the AbortController of a useChat session is aborted, no step  *)
(* appends content to the session's agent message, except the cancellation *)
(* notice, and no error is notified.                                       *)
C13_NothingVisibleAfterCancel ==
    [][\A k \in 1..Len(session.calls) :
          session.calls[k].aborted
          => (OnlyCancelNotice(k) /\ chatState'.errors = chatState.errors)]_vars

(* C17: when a useChat session ends with a transport error while           *)
(* bufferedContent.chunks holds content, the step appends the error marker *)
(* to the agent message and nothing else, and the buffer is dropped.       *)
C17_ErrorDoesNotFlush ==
    [][(/\ lastOp'.op \in {"streamEnd", "sendMessageStream"}
        /\ lastOp'.branch = "error"
        /\ chatState.bufferedContent.chunks # <<>>)
       => (/\ LastContent(chatState') = LastContent(chatState) \o ErrorNotice
           /\ chatState'.bufferedContent.chunks = <<>>)]_vars

(* the position of a step in the steps of a finalization, 0 when absent *)
StepAt(steps, name) ==
    IF \E i \in 1..Len(steps) : steps[i] = name
    THEN CHOOSE i \in 1..Len(steps) : steps[i] = name
    ELSE 0

(* C18: at the natural end of a useChat stream, the forced completion of   *)
(* the open tool calls (markStreamingComplete) comes after the residual    *)
(* chunk and before the final flush of the buffer (flushBufferedContent),  *)
(* and once the agent message is marked streamingComplete no step changes  *)
(* its content.                                                            *)
C18_FinalizationOrder ==
    [][/\ (lastOp'.op = "streamEnd" /\ lastOp'.branch = "done")
          => (/\ StepAt(lastOp'.steps, "processStreamingChunk")
                     < StepAt(lastOp'.steps, "markStreamingComplete")
              /\ StepAt(lastOp'.steps, "markStreamingComplete")
                     < StepAt(lastOp'.steps, "flushBufferedContent"))
       /\ \A i \in 1..Len(chatState.messages) :
             chatState.messages[i].streamingComplete
             => chatState'.messages[i].content = chatState.messages[i].content]_vars

(* C14: when startStream has returned after a cancellation that came       *)
(* before any tool call was reported, onComplete was fired, and no content *)
(* was delivered after the cancellation (SimpleStreamingClient).           *)
C14_CancelEndsWithNotification ==
    (/\ simple.phase = "aborted"
     /\ \A j \in 1..Len(simple.log) : simple.log[j].cb # "onToolCall")
    => (/\ \E j \in 1..Len(simple.log) : simple.log[j].cb = "onComplete"
        /\ \A j \in (simple.abortedAt + 1)..Len(simple.log) : simple.log[j].cb # "onContent")

(* C16: when startStream has returned after a transport failure, the last  *)
(* two callbacks are onError and then onComplete, each fired exactly once  *)
(* (SimpleStreamingClient).                                                *)
C16_ErrorThenComplete ==
    simple.phase = "failed"
    => LET n == Len(simple.log)
       IN /\ n >= 2
          /\ simple.log[n - 1].cb = "onError"
          /\ simple.log[n - 1].text = TransportError
          /\ simple.log[n].cb = "onComplete"
          /\ Cardinality({j \in 1..n : simple.log[j].cb = "onComplete"}) = 1
          /\ Cardinality({j \in 1..n : simple.log[j].cb = "onError"
                                       /\ simple.log[j].text = TransportError}) = 1

(* every hold-back of the model cut the buffer between two tokens *)
HoldBackIsExact == response.exact

(* C19: chunk-boundary independence.  When processStreamingResponse has    *)
(* read a stream to its end, the agent message that useChat builds from    *)
(* its onChunk calls has the content and the tool calls it has when the    *)
(* same stream arrives in one read.                                        *)
C19_ChunkBoundaryIndependence ==
    response.phase = "done"
    => streamResult(response.out) = streamResult(oneReadOut(response.text))

(* the longest non-empty strict prefix of a marker that the text ends     *)
(* with, the empty text when there is none                                 *)
SuspectTail(text) ==
    LET P == UNION {{SubSeq(ToolCallMarkers[m], 1, i) : i \in 1..(Len(ToolCallMarkers[m]) - 1)} :
                       m \in 1..Len(ToolCallMarkers)}
        T == {pre \in P : EndsWith(text, pre)}
    IN IF T = {} THEN <<>> ELSE CHOOSE pre \in T : \A other \in T : Len(other) <= Len(pre)

(* no marker of the stream lies across the end of what the function has   *)
(* processed so far: the part before it handed over, the rest withheld     *)
NoMarkerCut(st) ==
    LET done == st.pos - Len(st.buffer)
    IN \A m \in 1..Len(ToolCallMarkers) :
          \A q \in 1..(Len(st.text) - Len(ToolCallMarkers[m]) + 1) :
              SubSeq(st.text, q, q + Len(ToolCallMarkers[m]) - 1) = ToolCallMarkers[m]
              => ~(q <= done /\ done < q + Len(ToolCallMarkers[m]) - 1)

(* C20: in a read of processStreamingResponse after which the buffer holds *)
(* no complete marker but ends with a non-empty strict prefix of a marker, *)
(* that tail stays in the buffer and is not part of what is passed to      *)
(* onChunk; and no marker of the stream is ever handed over in two pieces. *)
C20_SuspectTailWithheld ==
    [][/\ (response.phase = "reading" /\ response'.phase = "reading")
          => LET full == response.buffer \o
                         SubSeq(response.text, response.pos + 1, response'.pos)
                 emitted == Join(SubSeq(response'.out, Len(response.out) + 1,
                                        Len(response'.out)))
             IN (foundMarkerIndex(full) = 0 /\ SuspectTail(full) # <<>>)
                => (/\ EndsWith(response'.buffer, SuspectTail(full))
                    /\ Len(emitted) <= Len(full) - Len(SuspectTail(full)))
       /\ NoMarkerCut(response')]_vars

(* a read has handed over the text before a suspect tail and withholds the tail *)
C20_Witness ==
    /\ response.phase = "reading"
    /\ response.out # <<>>
    /\ foundMarkerIndex(response.buffer) = 0
    /\ SuspectTail(response.buffer) # <<>>

(* C15: cancel is idempotent.  For useChat.cancelCurrentRequest,            *)
(* useSimpleChat.cancelStreaming, SimpleStreamingClient.abort and          *)
(* RobustStreamingClient.abort, a second call made right after the first   *)
(* gives the state the first call gave, and a call made while the          *)
(* controller is already aborted changes no state and fires no callback.   *)
(* The counters aborts and cancels only record the calls.                  *)
CancelTwiceIsCancelOnce ==
    /\ LET once == cancelCurrentRequest(chatState, session)
       IN cancelCurrentRequest(once.chat, once.session) = once
    /\ LET once == cancelStreaming(simpleChat, robust)
       IN cancelStreaming(once.hook, once.client) = once
    /\ simpleAbort(simpleAbort(simple)) = simpleAbort(simple)
    /\ robustAbort(robustAbort(robust)) = robustAbort(robust)

RepeatedCancelChangesNothing ==
    /\ (lastOp'.op = "cancelCurrentRequest" /\ lastOp'.branch = "again")
          => <<chatState, nextId, pendingUpdates, flushTimers, session>>' =
             <<chatState, nextId, pendingUpdates, flushTimers, session>>
    /\ (simple.aborted /\ simple'.aborts > simple.aborts)
          => [simple' EXCEPT !.aborts = simple.aborts] = simple
    /\ (robust.aborted /\ robust'.aborts > robust.aborts)
          => [robust' EXCEPT !.aborts = robust.aborts] = robust /\ simpleChat' = simpleChat
    /\ (simpleChat.cancels >= 1 /\ simpleChat'.cancels > simpleChat.cancels)
          => [simpleChat' EXCEPT !.cancels = simpleChat.cancels] = simpleChat /\ robust' = robust

C15_CancelIdempotent ==
    [][CancelTwiceIsCancelOnce /\ CancelTwiceIsCancelOnce' /\ RepeatedCancelChangesNothing]_vars

(* cancelCurrentRequest is called again while the handler of the cancelled *)
(* request has not finished and content is still buffered                  *)
C15_Witness ==
    /\ lastOp.op = "cancelCurrentRequest"
    /\ lastOp.branch = "again"
    /\ session.ref # 0
    /\ chatState.bufferedContent.chunks # <<>>

(* ------------------------- content of the messages --------------------- *)
IsPrefix(a, b) == Len(a) <= Len(b) /\ SubSeq(b, 1, Len(a)) = a

(* the tokens of the tool-start and tool-result lines of a stream *)
ToolLineTokens == {WRENCH, CHECK, ExecutingToolBold, ExecutingToolPlain, ResultBold, ResultPlain}

(* the tokens of the iteration markers *)
IterationTokens == {CLIPBOARD, ResearchIteration, ResearchComplete, ContinuingResearch}

(* C21: no token of a tool-start or tool-result line of the stream is in   *)
(* the content of a message of useChat.                                    *)
C21_NoToolTextInContent ==
    \A i \in 1..Len(chatState.messages) :
        ~HasAny(chatState.messages[i].content, ToolLineTokens)

(* C22: no token of an iteration marker (research iteration, continuing    *)
(* research, research complete) is in the content of a message of useChat, *)
(* at any point of a session.                                              *)
C22_NoIterationMarkerInContent ==
    \A i \in 1..Len(chatState.messages) :
        ~HasAny(chatState.messages[i].content, IterationTokens)

(* the content of the last message once the appends that are still queued  *)
(* have run                                                                *)
ContentWithQueued(st, queue) == LastContent(applyNested(st, queue))

(* C25: a content chunk that useChat processes while no tool call is       *)
(* executing is delivered to the agent message in that step, after the     *)
(* fragments that were pending, and the pending list is empty afterwards;  *)
(* while a tool call is executing the chunk is appended to the pending     *)
(* list.  An append that the step queues counts as delivered.              *)
C25_ContentDeliveredUnlessBlocked ==
    [][(lastOp'.op = "processStreamingChunk" /\ lastOp'.branch = "content")
       => IF SomeExecuting(chatState.activeToolCalls)
          THEN chatState'.bufferedContent.chunks =
                   Append(chatState.bufferedContent.chunks, lastOp'.chunk)
          ELSE /\ ContentWithQueued(chatState', pendingUpdates') =
                      ContentWithQueued(chatState, pendingUpdates)
                          \o Join(chatState.bufferedContent.chunks) \o lastOp'.chunk
               /\ chatState'.bufferedContent.chunks = <<>>]_vars

(* C26: the content of a streaming agent message only grows: what it held  *)
(* before a step is a prefix of what it holds after the step.              *)
C26_ContentAppendOnly ==
    [][\A i \in 1..Len(chatState.messages) :
          chatState.messages[i].isStreaming
          => IsPrefix(chatState.messages[i].content, chatState'.messages[i].content)]_vars

(* C30: a chunk is accepted only when the work of the earlier chunks is    *)
(* done: no flush timer is armed and no updater is queued when useChat     *)
(* processes a chunk.                                                      *)
C30_NoDeferredWorkAcrossChunks ==
    [][lastOp'.op = "processStreamingChunk" => flushTimers = 0]_vars

(* the lines of the streams that carry the icon and the label of a         *)
(* tool-start marker and no tool name                                      *)
MalformedLines == {line \in StreamLines : /\ Has(line, WRENCH)
                                          /\ HasAny(line, ToolLabels)
                                          /\ ~HasAny(line, Words)}

(* C23: a malformed marker line is delivered as plain content: whatever    *)
(* the state of the reading SimpleStreamingClient, processLine passes the  *)
(* line to onContent.                                                      *)
C23_MalformedLineIsContent ==
    simple.phase = "reading"
    => \A line \in MalformedLines :
          \E i \in 1..Len(processLine(line, simple.currentToolCall, simple.nextId).events) :
              LET e == processLine(line, simple.currentToolCall, simple.nextId).events[i]
              IN e.cb = "onContent" /\ IsPrefix(line, e.text)

(* the tool calls of the agent message of useSimpleChat *)
SimpleChatToolCalls(h) ==
    IF \E i \in 1..Len(h.messages) : h.messages[i].id = h.agentMessageId
    THEN h.messages[CHOOSE i \in 1..Len(h.messages) :
                        h.messages[i].id = h.agentMessageId].toolCalls
    ELSE <<>>

(* the list holds the snapshot, under its id once *)
HoldsOnce(toolCalls, tc) ==
    /\ Cardinality({i \in 1..Len(toolCalls) : toolCalls[i].id = tc.id}) = 1
    /\ \E i \in 1..Len(toolCalls) : toolCalls[i] = tc

(* C27: onToolCall is an upsert keyed by id: after a step of the client    *)
(* that delivers tool-call snapshots to useSimpleChat, activeToolCalls and *)
(* the toolCalls of the agent message hold the last snapshot once.         *)
C27_OnToolCallUpserts ==
    [][(/\ Len(robust'.log) > Len(robust.log)
        /\ robust'.log[Len(robust'.log)].cb = "onToolCall")
       => LET tc == robust'.log[Len(robust'.log)].toolCall
          IN /\ HoldsOnce(simpleChat'.activeToolCalls, tc)
             /\ HoldsOnce(SimpleChatToolCalls(simpleChat'), tc)]_vars

(* the handleUserMessage calls that still use their transport: the fetch   *)
(* is pending or the stream is open, and the controller is not aborted     *)
ActiveCalls ==
    {k \in 1..Len(session.calls) :
        session.calls[k].phase \in {"fetching", "open"} /\ ~session.calls[k].aborted}

C29_UnwindingLeavesNewSession ==
    [][\A k \in 1..Len(session.calls) :
          (/\ session.calls[k].aborted
           /\ session.calls[k].phase # "returned"
           /\ session'.calls[k].phase = "returned"
           /\ session.ref \notin {0, k}
           /\ session.ref \in ActiveCalls)
          => LET id == session.calls[session.ref].agentMessageId
             IN /\ MessageContent(chatState', id) = MessageContent(chatState, id)
                /\ chatState'.activeToolCalls = chatState.activeToolCalls
                /\ chatState'.bufferedContent = chatState.bufferedContent
                /\ chatState'.isLoading = chatState.isLoading]_vars

(* the tokens of a occur in b in the order they have in a *)
RECURSIVE InOrder(_, _)
InOrder(a, b) ==
    IF a = <<>> THEN TRUE
    ELSE IF b = <<>> THEN FALSE
    ELSE IF Head(a) = Head(b) THEN InOrder(Tail(a), Tail(b))
    ELSE InOrder(a, Tail(b))

(* C24: the stream order is kept: the texts passed to onChunk by           *)
(* processStreamingResponse, concatenated, and the content that useChat    *)
(* holds (the content of the agent message followed by the buffered        *)
(* chunks) have their tokens in the order of the stream.                   *)
C24_StreamOrderKept ==
    /\ InOrder(Join(response.out), response.text)
    /\ InOrder(Coarse(LastContent(chatState) \o Join(chatState.bufferedContent.chunks)),
               Coarse(response.text))

(* C32: conservation of content in useChat: while the stream is open and   *)
(* no updater is queued, the content of the agent message followed by the  *)
(* buffered chunks is the concatenation of the chunks passed to            *)
(* processStreamingChunk so far.                                           *)
C32_ContentConserved ==
    (/\ session.n = 1
     /\ session.calls[1].phase = "open"
     /\ pendingUpdates = <<>>)
    => Coarse(LastContent(chatState) \o Join(chatState.bufferedContent.chunks))
           = Coarse(Join(response.out))

(* the text without the tokens that sanitizeStreamingText removes *)
Sanitized(text) ==
    SelectSeq(text, LAMBDA tok : tok \notin {UndefinedText, ControlChar, ReplacementChar})

(* C33: conservation of text in processStreamingResponse: the texts passed *)
(* to onChunk so far followed by the held buffer are the input received so *)
(* far, up to the characters that sanitizeStreamingText removes; at the    *)
(* end of the stream the buffer is empty.                                  *)
C33_TextConserved ==
    /\ response.phase \in {"reading", "done"}
          => Sanitized(Join(response.out) \o response.buffer)
                 = Sanitized(SubSeq(response.text, 1, response.pos))
    /\ response.phase = "done" => response.buffer = <<>>

(* a marker string starts at position i of the text *)
MarkerAt(text, i) ==
    \E m \in 1..Len(ToolCallMarkers) :
        StartsWith(SubSeq(text, i, Len(text)), ToolCallMarkers[m])

(* every marker line that starts in the text ends in it *)
MarkerLinesWhole(text) ==
    \A i \in 1..Len(text) : MarkerAt(text, i) => \E j \in i..Len(text) : text[j] = NL

(* C34: while the stream is open, every text that processStreamingResponse *)
(* passes to onChunk holds its marker lines whole: no payload ends inside  *)
(* a marker line whose newline has not arrived.                            *)
C34_MarkerLinesWhole ==
    [][response'.phase = "reading"
       => \A i \in (Len(response.out) + 1)..Len(response'.out) :
              MarkerLinesWhole(response'.out[i])]_vars

(* a marker line was read without its newline and is held in the buffer,   *)
(* after text in front of it was passed on                                 *)
C34_Witness ==
    /\ response.phase = "reading"
    /\ response.buffer # <<>>
    /\ MarkerAt(response.buffer, 1)
    /\ ~Has(response.buffer, NL)
    /\ Len(response.buffer) > 2
    /\ response.out # <<>>

(* C35: RobustStreamingClient delivers every content line: the content     *)
(* that waits for the 50 ms timer is not replaced by a later line before   *)
(* it was passed to onContent.                                             *)
C35_DebounceLosesNoLine ==
    [][(robust.timer.armed /\ robust'.timer # robust.timer /\ ~robust'.aborted)
       => \E j \in (Len(robust.log) + 1)..Len(robust'.log) :
              /\ robust'.log[j].cb = "onContent"
              /\ robust'.log[j].text = robust.timer.content \o <<NL>>]_vars

(* C36: onComplete is terminal: in the callbacks of RobustStreamingClient  *)
(* onComplete occurs at most once and nothing follows it.                  *)
C36_OnCompleteIsLast ==
    \A j \in 1..Len(robust.log) : robust.log[j].cb = "onComplete" => j = Len(robust.log)

(* the agent message of useSimpleChat is marked isStreaming *)
SimpleChatStreaming(h) ==
    \E i \in 1..Len(h.messages) : h.messages[i].id = h.agentMessageId /\ h.messages[i].isStreaming

(* C37: when startStream of useSimpleChat's client has returned (the       *)
(* stream completed, a transport error was reported, or the stream was     *)
(* cancelled) and no timer is pending, isLoading is false and the agent    *)
(* message is not marked isStreaming.                                      *)
C37_SessionEndUnblocks ==
    (robust.phase \in {"done", "failed", "aborted"} /\ ~robust.timer.armed)
    => (~simpleChat.isLoading /\ ~SimpleChatStreaming(simpleChat))

(* C38: a flush by the 100 ms timer of useChat releases no buffered        *)
(* content and does not reset hasActiveToolCalls when, as it fires, a tool *)
(* call is executing or tool-indicator buffering is going on.              *)
C38_TimerFlushRespectsBlocking ==
    [][(/\ flushTimers' < flushTimers
        /\ \/ SomeExecuting(chatState.activeToolCalls)
           \/ chatState.bufferedContent.hasActiveToolCalls)
       => (/\ chatState'.messages = chatState.messages
           /\ chatState'.bufferedContent = chatState.bufferedContent)]_vars

(* the parts of the state that clearMessages of useChat resets *)
ChatIsCleared(st) ==
    /\ st.messages = <<>>
    /\ st.activeToolCalls = <<>>
    /\ st.bufferedContent = EmptyBuffer
    /\ ~st.isLoading

(* C39: clearMessages of useChat leaves the message list, activeToolCalls  *)
(* and the buffer empty and isLoading false, and in useChat and in         *)
(* useOpenAIChat the message list stays empty until the next               *)
(* handleUserMessage: no step of a session that is still running or        *)
(* unwinding adds a message or content.                                    *)
C39_ClearedStaysEmpty ==
    [][/\ lastOp'.op = "clearMessages" => ChatIsCleared(chatState')
       /\ (chatState.messages = <<>> /\ lastOp'.op # "handleUserMessage")
              => chatState'.messages = <<>>
       /\ (openAIChat.messages = <<>> /\ openAIChat'.op # "handleUserMessage")
              => openAIChat'.messages = <<>>]_vars

(* the chat was cleared while a stream was open, and the handler of that   *)
(* session has since run its catch, flush and finally                      *)
C39_Witness ==
    /\ chatState.messages = <<>>
    /\ session.n >= 1
    /\ lastOp.op = "streamEnd"
    /\ lastOp.branch = "cancelled"

(* C31: no multi-byte character is split or corrupted by the decoding: the *)
(* text decoded so far holds no replacement character and is the           *)
(* characters of the bytes read so far without those of the incomplete     *)
(* sequence that is held back, and at the end of the stream it is the text *)
(* that was sent.                                                          *)
C31_NoCharacterSplit ==
    /\ ~Has(decoding.text, ReplacementChar)
    /\ IsPrefix(decoding.text, decoding.chars)
    /\ decoding.phase = "done" => decoding.text = decoding.chars

====
